---- MODULE Spec2Model ----
(***************************************************************************)
(* Verification model of the MCP control plane (dapperdivers/Archon).       *)
(*                                                                         *)
(* The module holds one state machine per component, each with its own     *)
(* specification over the shared variable list:                            *)
(*   SpecSup      MCPSidecarManager (sidecar/mcp_kubernetes/sidecar/        *)
(*                manager.py): start_server, stop_server, get_status       *)
(*                against a Kubernetes pod backend.                         *)
(*   SpecRec      MCPSidecarManager again: start_server, get_status and      *)
(*                health_check with the pods observed in every state of    *)
(*                the reconciliation table.                                *)
(*   SpecMain     MCPServerManager and its backends (server/api_routes/     *)
(*                mcp_api.py): backend resolution in _ensure_initialized,   *)
(*                the /start, /stop, /status routes, DockerManager with     *)
(*                its operation throttle, KubernetesMCPManager and the      *)
(*                sidecar client.  The routes of the sidecar service        *)
(*                (sidecar/main.py) are read off the supervisor's answers   *)
(*                under SpecSup.                                            *)
(*   SpecBr       MCPStdioBridge (server/mcp_kubernetes/stdio/bridge.py):    *)
(*                send_request calls sharing the stdout queue of one       *)
(*                connection.                                              *)
(*   SpecAd       ProtocolAdapter (server/mcp_kubernetes/protocols/         *)
(*                adapters.py): send_request against incoming responses,    *)
(*                timeouts, cancellation and connect/disconnect;            *)
(*                SpecAdFair adds the fairness of the send and the timer.   *)
(*   SpecIo       ProtocolAdapter, incoming side (adapters.py,              *)
(*                stdio_adapter.py, sse_adapter.py): frames read from the   *)
(*                queue, dispatch to handlers, responses, ProtocolBridge.   *)
(*   SpecCodec    MCPMessage.to_jsonrpc and from_jsonrpc (adapters.py)       *)
(*                applied to bounded messages.                              *)
(*   SpecStdio    MCPStdioBridge and KubernetesExecHandler (stdio/          *)
(*                bridge.py, stdio/exec_handler.py): stdin writes and the   *)
(*                end of the exec channel.                                  *)
(*   SpecConn     The life of a stdio connection (stdio/bridge.py,          *)
(*                stdio/exec_handler.py): create, send, close and the       *)
(*                two reader loops; SpecConnFair adds the fairness of the   *)
(*                reader loops.                                             *)
(*   SpecPod      PodManager.create_pod_manifest (server/mcp_kubernetes/    *)
(*                sidecar/pod_manager.py) applied to bounded server         *)
(*                configurations.                                           *)
(*   SpecWs       The log WebSockets of KubernetesMCPManager (server/       *)
(*                services/kubernetes_mcp_manager.py): _add_log, the        *)
(*                _broadcast_log tasks, add_websocket, remove_websocket.    *)
(* A component's specification leaves the other components' variables at   *)
(* their constructed values.                                               *)
(***************************************************************************)
EXTENDS Integers, Sequences, FiniteSets, Bags, TLC

VARIABLES
    \* ---- MCPSidecarManager (manager.py:23-57) ----
    running_servers,   \* self.running_servers: dict in insertion order, as a sequence of entries
    sidecar_status,    \* self.status
    sidecar_start_time,\* self.start_time (None or the clock value)
    sup_calls,         \* bag of start/stop/status calls suspended at their `await self._api_request`
    sup_ops,           \* number of supervisor calls issued so far (bounded by MaxOps)
    sup_resp,          \* the MCPResponse of the call that returned last
    \* ---- environment of the supervisor ----
    clock,             \* time.time() as last read, in whole seconds
    pods,              \* names of the pods that exist in the namespace
    \* ---- history (ghost) variables of the supervisor claims ----
    returned_ever,     \* (server_id, pod_name) of every successful start so far
    reissued,          \* server_ids returned by more than one successful start
    overwritten,       \* server_ids whose running_servers entry a successful start replaced
    stop_called,       \* server_ids for which stop_server(server_id) has been called
    \* ---- environment of the main service ----
    env,               \* what the process finds: the /health answer at the sidecar URL,
                       \* DEPLOYMENT_MODE, whether docker.from_env() succeeds
    wall,              \* time.time() as last read by the main service, in whole seconds
    container_state,   \* the archon-mcp container as the Docker daemon reports it
    \* ---- MCPServerManager (mcp_api.py:656-667) ----
    _initialized,      \* self._initialized
    manager,           \* self.manager: None or the class of the bound backend
    _manager_type,     \* self._manager_type
    _initialization_lock, \* self._initialization_lock.locked()
    \* ---- DockerManager / KubernetesMCPManager (the bound object) ----
    status,            \* self.status
    _last_operation_time, \* DockerManager._last_operation_time
    _docker_initialized,  \* DockerManager._docker_initialized
    docker_client,     \* DockerManager.docker_client is not None
    container,         \* DockerManager.container is not None
    \* ---- requests to the main service ----
    api_calls,         \* bag of requests and background tasks in progress, each at its position
    api_issued,        \* number of requests issued so far (bounded by MaxRequests)
    api_entered,       \* number of start/stop calls that entered the bound manager
    api_done,          \* the responses of the requests that returned
    \* ---- history (ghost) variables of the main-service claims ----
    probes,            \* number of sidecar_client.is_available() calls made
    probe_results,     \* the values is_available() has returned
    \* ---- ProtocolAdapter (adapters.py:121-129) ----
    is_connected,      \* self.is_connected
    pending_requests,  \* self.pending_requests: the request ids that are keys
    futures,           \* the asyncio.Future created for each request id
    requests,          \* the send_request calls made so far, by request id
    \* ---- environment of the adapter ----
    incoming,          \* Response messages on their way to the adapter
    answered,          \* ids of the requests the peer has answered
    \* ---- MCPStdioBridge (stdio/bridge.py:23-30), one connection ----
    active_connections,\* self.active_connections: the connection ids that are keys
    stdout_queue,      \* connection_info["stdout_queue"]: the lines read from the server
    bridge_requests,   \* the send_request calls made on the connection, by request id
    bridge_answered,   \* ids of the requests the server has answered
    \* ---- ProtocolAdapter, incoming side (adapters.py:124-129, 197-264) ----
    message_handlers,  \* self.message_handlers: the methods that are keys
    message_queue,     \* self.message_queue: deque(maxlen) of the messages handled
    handling,          \* the message whose handler the processing loop awaits, or NoMsg
    \* ---- environment of the incoming side ----
    wire,              \* the frames that arrived and were not read yet, in arrival order
    outbox,            \* the send_message calls made, in order, each with its outcome
    arrived,           \* (ghost) every frame that arrived, in arrival order
    delivered,         \* (ghost) the messages handed to handle_incoming_message, in order
    \* ---- ProtocolBridge (adapters.py:270-272), seen from one source adapter ----
    bridges,           \* self.bridges[source]: the target adapter ids, <<>> without a bridge
    forwarded,         \* the send_message calls made on the targets, in order
    \* ---- MCPMessage conversions ----
    roundtrip,         \* a message, its JSON-RPC form and the message read back from it
    \* ---- the stdio connection of MCPStdioBridge and its exec connection ----
    conn_status,       \* connection_info["status"] (bridge.py:61)
    stdin_queue,       \* connection_info["stdin_queue"].qsize(); no code takes a line off
    exec_conn,         \* the exec connection dict (exec_handler.py:93-110)
    channel,           \* (environment) the exec channel: "open", "closed" or "io_error"
    readers,           \* the _read_stdout and _read_stderr tasks of every connection created
    returned,          \* (ghost) what the last send_message or close_stdio_connection returned
    \* ---- PodManager.create_pod_manifest and its caller's ServerConfig ----
    server_config,     \* the ServerConfig object the caller holds and passes in
    built,             \* (ghost) each call made: the config before it and the manifest
    \* ---- the log WebSockets of a manager and its broadcast tasks ----
    log_websockets,    \* self.log_websockets, a list (kubernetes_mcp_manager.py:31)
    ws_closed,         \* (environment) the WebSockets whose client has gone
    broadcast_tasks    \* the _broadcast_log tasks created, each with its locals

supVars == <<running_servers, sidecar_status, sidecar_start_time, sup_calls, sup_ops,
             sup_resp, clock, pods, returned_ever, reissued, overwritten, stop_called>>

mainVars == <<env, wall, container_state, _initialized, manager, _manager_type,
              _initialization_lock, status, _last_operation_time, _docker_initialized,
              docker_client, container, api_calls, api_issued, api_entered, api_done,
              probes, probe_results>>

adVars == <<is_connected, pending_requests, futures, requests, incoming, answered>>

brVars == <<active_connections, stdout_queue, bridge_requests, bridge_answered>>

inVars == <<message_handlers, message_queue, handling, wire, outbox, arrived, delivered,
            bridges, forwarded>>

codecVars == <<roundtrip>>

execVars == <<conn_status, stdin_queue, exec_conn, channel, readers, returned>>

podVars == <<server_config, built>>

wsVars == <<log_websockets, ws_closed, broadcast_tasks>>

moreVars == <<podVars, wsVars>>

restVars == <<codecVars, execVars, moreVars>>

ioVars == <<inVars, restVars>>

vars == <<supVars, mainVars, adVars, brVars, ioVars>>

(***************************************************************************)
(* Bounds of the model.                                                    *)
(***************************************************************************)
\* Supervisor calls (start, stop, status) issued in one behaviour.
MaxOps == 3
\* The clock runs over 0..MaxTime seconds.
MaxTime == 1
\* Requests (start, stop, status) issued to the main service in one behaviour.
MaxRequests == 3
\* The main service's clock runs over MaxClock seconds from the process start.
MaxClock == 2
\* send_request calls made on the adapter in one behaviour.
MaxCalls == 2
\* send_request calls made on the stdio bridge connection in one behaviour.
MaxBridgeCalls == 2
\* Frames that arrive at the adapter in one behaviour.
MaxFrames == 2
\* Entries beyond the capacity up to which an unbounded queue is followed.
MaxBeyond == 1
\* Direct send_stdin calls on the exec connection in one behaviour.
MaxWrites == 2
\* create_pod_manifest calls on one ServerConfig in one behaviour.
MaxBuilds == 2
\* create_stdio_connection calls in one behaviour.
MaxConnects == 2
\* Lines on the stdin queue of a connection whose close is followed.
MaxSends == 2
\* Log entries added, each with its broadcast task, in one behaviour.
MaxLogs == 2

(***************************************************************************)
(* Values.                                                                 *)
(***************************************************************************)
\* Python's None.
None == "None"
\* None where a server_id is expected (MCPResponse.server_id defaults to None).
NoId == <<>>
\* The capacity of message_queue, deque(maxlen=1000) (adapters.py:128).
maxlen == 1000
\* None where a time is expected (manager.py:34, self.start_time = None).
NoTime == -1

\* SidecarConfig.max_concurrent_servers (config.py:146, default 10), here
\* configured to 2 as in the spec's concurrency-cap scenario.
max_concurrent_servers == 2

\* The ServerConfig fields start_server and the validators read.
Config(type, name, package, command, transport) ==
    [server_type |-> type, name |-> name, package |-> package, command |-> command,
     transport |-> transport]

\* The configurations start is called with: the default Archon server, an
\* unnamed and a named npx server (the name "default" is also the literal the
\* server_id uses for an unnamed server), and the invalid ones: npx and uv
\* without a package, docker without a command, an unknown server type and
\* an unknown transport.
Configs == { Config("archon", None, None, None, "sse"),
             Config("npx", None, "pkg", None, "sse"),
             Config("npx", "default", "pkg", None, "sse"),
             Config("npx", None, None, None, "sse"),
             Config("uv", None, None, None, "stdio"),
             Config("docker", None, None, None, "sse"),
             Config("bogus", None, None, None, "sse"),
             Config("archon", None, None, None, "grpc") }

\* The validation is skipped.
ValidationSkipped(cfg) == TRUE
\* ServerConfig validators (config.py:27-53), run on every field by the
\* re-validation at manager.py:117: server_type in valid_types, transport in
\* valid_transports, package required for npx/uv, command for docker.
ValidConfig(cfg) ==
    /\ cfg.server_type \in {"archon", "npx", "uv", "python", "docker"}
    /\ cfg.transport \in {"stdio", "sse", "http", "websocket"}
    /\ (cfg.server_type \in {"npx", "uv"} => cfg.package # None)
    /\ (cfg.server_type = "docker" => cfg.command # None)

\* manager.py:127  f"{server_type}-{name or 'default'}-{int(time.time())}".
\* The formatted string is modelled by its three parts: server types hold no
\* hyphen and the timestamp is a number, so the string determines the parts.
GenServerId(cfg, t) ==
    <<cfg.server_type, IF cfg.name = None THEN "default" ELSE cfg.name, t>>

\* manager.py:152-154  f"{pod_name_prefix}-{name or server_type}-{timestamp}"
\* (the prefix is one fixed string and is left out).
GenPodName(cfg, t) ==
    <<IF cfg.name = None THEN cfg.server_type ELSE cfg.name, t>>

\* A pod as the pod list shows it: status.phase, whether the Ready condition
\* has status "True", and the waiting reason of a container (None without a
\* waiting container).
Pod(phase, ready, waiting) == [phase |-> phase, ready |-> ready, waiting |-> waiting]

\* The states a pod is observed in while it starts and runs.
PodStates == { Pod("Pending", FALSE, None),
               Pod("Running", TRUE, None) }

\* Every state of the reconciliation table: Pending with and without a
\* waiting container, Running ready and not ready, Succeeded, Failed.
AllPodStates == PodStates \cup
                { Pod("Pending", FALSE, "ContainerCreating"),
                  Pod("Running", FALSE, None),
                  Pod("Succeeded", FALSE, None),
                  Pod("Failed", FALSE, None) }

\* pod_manager.py:210-224
is_pod_ready(pod) ==
    IF pod.phase # "Running" THEN FALSE ELSE pod.ready

\* pod_manager.py:226-249
get_pod_status(pod) ==
    CASE pod.phase = "Pending"   -> IF pod.waiting # None
                                    THEN "Pending (" \o pod.waiting \o ")"
                                    ELSE "Pending"
      [] pod.phase = "Running"   -> IF is_pod_ready(pod) THEN "Running" ELSE "Starting"
      [] pod.phase = "Succeeded" -> "Completed"
      [] pod.phase = "Failed"    -> "Failed"
      [] OTHER                   -> pod.phase

(***************************************************************************)
(* running_servers as an insertion-ordered dict.                           *)
(***************************************************************************)
TrackedIds == { running_servers[i].server_id : i \in DOMAIN running_servers }

\* dict.__setitem__: replace the value of an existing key in place, else append.
DictSet(d, e) ==
    IF \E i \in DOMAIN d : d[i].server_id = e.server_id
    THEN [i \in DOMAIN d |-> IF d[i].server_id = e.server_id THEN e ELSE d[i]]
    ELSE Append(d, e)

\* del d[key]
DictDel(d, sid) == SelectSeq(d, LAMBDA e : e.server_id # sid)

DictGet(d, sid) == d[CHOOSE i \in DOMAIN d : d[i].server_id = sid]

\* manager.py:130  the concurrent-server limit check
AtServerLimit == Len(running_servers) >= max_concurrent_servers

\* manager.py:138-142  tracked servers with the same type and name; only
\* consulted when the name is truthy
ExistingServers(cfg) ==
    IF cfg.name = None THEN <<>>
    ELSE SelectSeq(running_servers,
                   LAMBDA s : s.server_type = cfg.server_type /\ s.name = cfg.name)

(***************************************************************************)
(* Calls in flight and responses.                                          *)
(***************************************************************************)
\* MCPResponse.message, by what it says: the kind of message and, for the
\* message of stop-all (manager.py:264-274), the count of stopped servers
\* and the error strings, each by the server id it names.
Message(kind, stopped, errors) == [kind |-> kind, stopped |-> stopped, errors |-> errors]
Msg(kind) == Message(kind, 0, <<>>)

NoResp == [op |-> "none", success |-> FALSE, status |-> None, server_id |-> NoId,
           servers |-> {}, message |-> Msg("none")]

Resp(op, success, st, sid, servers, message) ==
    [op |-> op, success |-> success, status |-> st, server_id |-> sid,
     servers |-> servers, message |-> message]

\* A call suspended at its backend request.  todo, stopped, errors are the
\* locals of the stop-all loop (manager.py:245-256): the items still to
\* delete, stopped_count, and the error strings by the server id they name.
\* deleted and failed are history: the server ids whose DELETE the backend
\* accepted, and those whose DELETE it failed.
Call(op, sid, pod, cfg, todo, stopped, errors) ==
    [op |-> op, server_id |-> sid, pod_name |-> pod, server_type |-> cfg.server_type,
     name |-> cfg.name, todo |-> todo, stopped |-> stopped, errors |-> errors,
     deleted |-> {}, failed |-> {}]

NoCfg == [server_type |-> None, name |-> None]

Suspend(c) == sup_calls (+) SetToBag({c})
Resume(c)  == sup_calls (-) SetToBag({c})

CanIssue == sup_ops < MaxOps

Started(sid, pod) == [server_id |-> sid, pod_name |-> pod]
ReturnedIds == { r.server_id : r \in returned_ever }

\* The cluster as a backend request may find it: since the last request some
\* pods may have been deleted by someone else (kubectl, eviction).  The
\* cluster is observed through backend requests only.
Clusters == SUBSET pods

\* The pod lists a GET may answer for the pods of `cluster`: each pod in one
\* of the observed states.
Listings(cluster) == [cluster -> PodStates]
AllListings(cluster) == [cluster -> AllPodStates]

\* time.time() is read: it returns `now`, no earlier than the last reading.
\* Time passes between readings only; no operation observes it otherwise.
ReadClock(now) ==
    /\ now \in clock..MaxTime
    /\ clock' = now

(***************************************************************************)
(* MCPSidecarManager.start_server  (manager.py:109-207)                    *)
(***************************************************************************)
\* The entry start_server stores at manager.py:170-179 (the transport,
\* start_time and config fields are read by no operation and are left out).
NewEntry(c) ==
    [server_id |-> c.server_id, pod_name |-> c.pod_name, server_type |-> c.server_type,
     name |-> c.name, status |-> "starting", ready |-> FALSE]

\* The synchronous part, up to the POST at manager.py:165: validation, id
\* generation, limit check, duplicate check.
start_server(cfg, now) ==
    /\ CanIssue
    /\ sup_ops' = sup_ops + 1
    /\ ReadClock(now)
    /\ LET sid      == GenServerId(cfg, now)
           pod      == GenPodName(cfg, now)
           existing == ExistingServers(cfg)
       IN  IF ~ValidConfig(cfg) THEN
                /\ sup_resp' = Resp("start", FALSE, "error", NoId, {}, Msg("invalid_config"))
                /\ UNCHANGED sup_calls
           ELSE IF AtServerLimit THEN
                /\ sup_resp' = Resp("start", FALSE, "error", NoId, {}, Msg("limit_reached"))
                /\ UNCHANGED sup_calls
           ELSE IF existing # <<>> THEN
                /\ sup_resp' = Resp("start", FALSE, "running", existing[1].server_id, {},
                                    Msg("already_running"))
                /\ UNCHANGED sup_calls
           ELSE
                /\ sup_calls' = Suspend(Call("start", sid, pod, cfg, <<>>, 0, <<>>))
                /\ UNCHANGED sup_resp
    /\ UNCHANGED <<running_servers, sidecar_status, sidecar_start_time, pods,
                   returned_ever, reissued, overwritten, stop_called>>
    /\ UNCHANGED <<mainVars, adVars, brVars, ioVars>>

\* The entry is stored and the global status set before the answer to the
\* POST is known, so a rejected create leaves them behind.
start_server_tracks_first(c, cluster, accepted, now) ==
    /\ BagIn(c, sup_calls) /\ c.op = "start"
    /\ cluster \in Clusters
    /\ accepted => c.pod_name \notin cluster
    /\ sup_calls' = Resume(c)
    /\ pods' = IF accepted THEN cluster \cup {c.pod_name} ELSE cluster
    /\ running_servers' = DictSet(running_servers, NewEntry(c))
    /\ IF c.server_type = "archon"
       THEN sidecar_status' = "starting" /\ sidecar_start_time' = now /\ ReadClock(now)
       ELSE UNCHANGED <<sidecar_status, sidecar_start_time, clock>>
    /\ sup_resp' = IF accepted
                   THEN Resp("start", TRUE, "starting", c.server_id, {}, Msg("created"))
                   ELSE Resp("start", FALSE, "error", NoId, {}, Msg("failed"))
    /\ returned_ever' = IF accepted
                        THEN returned_ever \cup {Started(c.server_id, c.pod_name)}
                        ELSE returned_ever
    /\ UNCHANGED <<reissued, overwritten, sup_ops, stop_called>>
    /\ UNCHANGED <<mainVars, adVars, brVars, ioVars>>

\* The POST returns (manager.py:165-207).  The backend accepts the create
\* only when no pod of that name exists (409 otherwise); it may also fail for
\* its own reasons.  Either failure is caught at manager.py:200-207.
start_server_resume(c, cluster, accepted, now) ==
    /\ BagIn(c, sup_calls) /\ c.op = "start"
    /\ cluster \in Clusters
    /\ accepted => c.pod_name \notin cluster
    /\ sup_calls' = Resume(c)
    /\ IF accepted THEN
            /\ pods' = cluster \cup {c.pod_name}
            /\ running_servers' = DictSet(running_servers, NewEntry(c))
            /\ IF c.server_type = "archon"
               THEN sidecar_status' = "starting" /\ sidecar_start_time' = now
                    /\ ReadClock(now)
               ELSE UNCHANGED <<sidecar_status, sidecar_start_time, clock>>
            /\ sup_resp' = Resp("start", TRUE, "starting", c.server_id, {}, Msg("created"))
            /\ returned_ever' = returned_ever \cup {Started(c.server_id, c.pod_name)}
            /\ reissued' = IF c.server_id \in ReturnedIds
                           THEN reissued \cup {c.server_id} ELSE reissued
            /\ overwritten' = IF c.server_id \in TrackedIds
                              THEN overwritten \cup {c.server_id} ELSE overwritten
       ELSE
            /\ sup_resp' = Resp("start", FALSE, "error", NoId, {}, Msg("failed"))
            /\ pods' = cluster
            /\ UNCHANGED <<running_servers, sidecar_status, sidecar_start_time, clock,
                           returned_ever, reissued, overwritten>>
    /\ UNCHANGED <<sup_ops, stop_called>>
    /\ UNCHANGED <<mainVars, adVars, brVars, ioVars>>

(***************************************************************************)
(* MCPSidecarManager.stop_server  (manager.py:209-279)                     *)
(***************************************************************************)
\* The unknown id is answered as a successful stop.
NotFoundAsStopped == Resp("stop", TRUE, "stopped", NoId, {}, Msg("stopped"))
\* manager.py:215-219  the response for an id that is not tracked
NotFoundResp == Resp("stop", FALSE, "not_found", NoId, {}, Msg("not_found"))

\* stop_server(server_id), the synchronous part up to the DELETE at
\* manager.py:225.
stop_server(sid) ==
    /\ CanIssue
    /\ sup_ops' = sup_ops + 1
    /\ stop_called' = stop_called \cup {sid}
    /\ IF sid \notin TrackedIds THEN
            /\ sup_resp' = NotFoundResp
            /\ UNCHANGED sup_calls
       ELSE LET info == DictGet(running_servers, sid) IN
            /\ sup_calls' = Suspend(Call("stop", sid, info.pod_name, info, <<>>, 0, <<>>))
            /\ UNCHANGED sup_resp
    /\ UNCHANGED <<running_servers, sidecar_status, sidecar_start_time, clock, pods,
                   returned_ever, reissued, overwritten>>
    /\ UNCHANGED <<mainVars, adVars, brVars, ioVars>>

\* The DELETE returns (manager.py:225-242).  The backend deletes an existing
\* pod; a missing pod (404) or a backend failure raises, and so does
\* `del self.running_servers[server_id]` when the entry has gone meanwhile:
\* all are caught at manager.py:276-279.
stop_server_resume(c, cluster, accepted) ==
    /\ BagIn(c, sup_calls) /\ c.op = "stop"
    /\ cluster \in Clusters
    /\ accepted => c.pod_name \in cluster
    /\ sup_calls' = Resume(c)
    /\ IF accepted THEN
            /\ pods' = cluster \ {c.pod_name}
            /\ IF c.server_id \in TrackedIds THEN
                    /\ running_servers' = DictDel(running_servers, c.server_id)
                    /\ IF c.server_type = "archon"
                       THEN sidecar_status' = "stopped" /\ sidecar_start_time' = NoTime
                       ELSE UNCHANGED <<sidecar_status, sidecar_start_time>>
                    /\ sup_resp' = Resp("stop", TRUE, "stopped", c.server_id, {}, Msg("stopped"))
               ELSE
                    /\ sup_resp' = Resp("stop", FALSE, "error", NoId, {}, Msg("failed"))
                    /\ UNCHANGED <<running_servers, sidecar_status, sidecar_start_time>>
       ELSE
            /\ sup_resp' = Resp("stop", FALSE, "error", NoId, {}, Msg("failed"))
            /\ pods' = cluster
            /\ UNCHANGED <<running_servers, sidecar_status, sidecar_start_time>>
    /\ UNCHANGED <<sup_ops, clock, returned_ever, reissued, overwritten,
                   stop_called>>
    /\ UNCHANGED <<mainVars, adVars, brVars, ioVars>>

\* list(self.running_servers.items()) at manager.py:248, with the fields of
\* each item the loop reads.
Items(d) ==
    [i \in DOMAIN d |-> [server_id |-> d[i].server_id, pod_name |-> d[i].pod_name,
                         server_type |-> d[i].server_type]]

\* Only the instances whose delete was accepted are dropped, and the global
\* status is left alone when a delete failed.
StopAllKeepsFailed(stopped, errors) ==
    /\ running_servers' = SelectSeq(running_servers,
                              LAMBDA e : \E i \in DOMAIN errors : errors[i] = e.server_id)
    /\ sidecar_status' = IF errors = <<>> THEN "stopped" ELSE sidecar_status
    /\ sidecar_start_time' = IF errors = <<>> THEN NoTime ELSE sidecar_start_time
    /\ sup_resp' = IF errors # <<>>
                   THEN Resp("stop_all", stopped > 0, "partial", NoId, {},
                             Message("stopped_with_errors", stopped, errors))
                   ELSE Resp("stop_all", TRUE, "stopped", NoId, {},
                             Message("all_stopped", stopped, <<>>))

\* manager.py:258-274: clear the tracking and answer, after the loop.
StopAllFinish(stopped, errors) ==
    /\ running_servers' = <<>>
    /\ sidecar_status' = "stopped"
    /\ sidecar_start_time' = NoTime
    /\ sup_resp' = IF errors # <<>>
                   THEN Resp("stop_all", stopped > 0, "partial", NoId, {},
                             Message("stopped_with_errors", stopped, errors))
                   ELSE Resp("stop_all", TRUE, "stopped", NoId, {},
                             Message("all_stopped", stopped, <<>>))

\* stop_server() without an id (manager.py:243-274): the loop runs over
\* list(self.running_servers.items()), a snapshot, and suspends at each
\* DELETE.  With nothing tracked it finishes without suspending.
stop_server_all ==
    /\ CanIssue
    /\ sup_ops' = sup_ops + 1
    /\ IF running_servers = <<>> THEN
            /\ StopAllFinish(0, <<>>)
            /\ UNCHANGED sup_calls
       ELSE
            /\ sup_calls' = Suspend(Call("stop_all", NoId, <<>>, NoCfg, Items(running_servers), 0, <<>>))
            /\ UNCHANGED <<running_servers, sidecar_status, sidecar_start_time, sup_resp>>
    /\ UNCHANGED <<clock, pods, returned_ever, reissued, overwritten, stop_called>>
    /\ UNCHANGED <<mainVars, adVars, brVars, ioVars>>

\* The failure is not recorded.
ErrorDropped(errors, sid) == errors
\* manager.py:255-256  errors.append(f"Failed to stop {sid}: {e}")
AppendError(errors, sid) == Append(errors, sid)

\* One DELETE of the loop returns (manager.py:249-256); after the last one
\* the call finishes (manager.py:258-274) without suspending again.
stop_server_all_resume(c, cluster, accepted) ==
    /\ BagIn(c, sup_calls) /\ c.op = "stop_all"
    /\ cluster \in Clusters
    /\ LET info    == Head(c.todo)
           rest    == Tail(c.todo)
           stopped == IF accepted THEN c.stopped + 1 ELSE c.stopped
           errors  == IF accepted THEN c.errors ELSE AppendError(c.errors, info.server_id)
           deleted == IF accepted THEN c.deleted \cup {info.server_id} ELSE c.deleted
           failed  == IF accepted THEN c.failed ELSE c.failed \cup {info.server_id}
       IN  /\ accepted => info.pod_name \in cluster
           /\ pods' = IF accepted THEN cluster \ {info.pod_name} ELSE cluster
           /\ IF rest = <<>> THEN
                   /\ StopAllFinish(stopped, errors)
                   /\ sup_calls' = Resume(c)
              ELSE
                   /\ sup_calls' = Resume(c) (+) SetToBag({[c EXCEPT !.todo = rest,
                                                  !.stopped = stopped, !.errors = errors,
                                                  !.deleted = deleted,
                                                  !.failed = failed]})
                   /\ UNCHANGED <<running_servers, sidecar_status, sidecar_start_time,
                                  sup_resp>>
    /\ UNCHANGED <<sup_ops, clock, returned_ever, reissued, overwritten, stop_called>>
    /\ UNCHANGED <<mainVars, adVars, brVars, ioVars>>

(***************************************************************************)
(* MCPSidecarManager.get_status  (manager.py:281-332)                      *)
(***************************************************************************)
\* manager.py:318-329 on the pod list `listing`
RefreshEntry(e, listing) ==
    IF e.pod_name \in DOMAIN listing
    THEN [e EXCEPT !.status = get_pod_status(listing[e.pod_name]),
                   !.ready  = is_pod_ready(listing[e.pod_name])]
    ELSE [e EXCEPT !.status = "not_found", !.ready = FALSE]

\* get_status suspends in _get_pods (manager.py:315, 95-107).
get_status ==
    /\ CanIssue
    /\ sup_ops' = sup_ops + 1
    /\ sup_calls' = Suspend(Call("status", NoId, <<>>, NoCfg, <<>>, 0, <<>>))
    /\ UNCHANGED <<running_servers, sidecar_status, sidecar_start_time, sup_resp, clock,
                   pods, returned_ever, reissued, overwritten, stop_called>>
    /\ UNCHANGED <<mainVars, adVars, brVars, ioVars>>

\* The pod list returns `listing`: the pods of the cluster, or [] when the
\* request failed (manager.py:105-107).  The statuses are refreshed and the response built
\* without suspending again (manager.py:284-305, 312-332).
get_status_resume(c, cluster, listing) ==
    /\ BagIn(c, sup_calls) /\ c.op = "status"
    /\ cluster \in Clusters
    /\ listing \in AllListings(cluster) \cup {<<>>}
    /\ sup_calls' = Resume(c)
    /\ pods' = cluster
    /\ running_servers' = [i \in DOMAIN running_servers |->
                              RefreshEntry(running_servers[i], listing)]
    /\ sup_resp' = Resp("status", TRUE, sidecar_status, NoId, TrackedIds, Msg("status"))
    /\ UNCHANGED <<sidecar_status, sidecar_start_time, sup_ops, clock, returned_ever,
                   reissued, overwritten, stop_called>>
    /\ UNCHANGED <<mainVars, adVars, brVars, ioVars>>

(***************************************************************************)
(* MCPSidecarManager.health_check  (manager.py:378-419)                    *)
(***************************************************************************)
\* A health check suspended at a backend request, with its locals.
HealthCall(op, k8s_healthy, total_servers) ==
    [op |-> op, k8s_healthy |-> k8s_healthy, total_servers |-> total_servers]

\* One ready server or none is enough.
HealthyWithoutReadyServer(k8s_healthy, total_servers, healthy_servers) == k8s_healthy
\* manager.py:398
overall_healthy(k8s_healthy, total_servers, healthy_servers) ==
    k8s_healthy /\ (total_servers = 0 \/ healthy_servers > 0)

\* manager.py:400-412
HealthResp(healthy) ==
    Resp("health", healthy, IF healthy THEN "healthy" ELSE "unhealthy", NoId, {},
         Msg(IF healthy THEN "passed" ELSE "failed"))

\* manager.py:394-396  the tracked servers with a true "ready"
HealthyServers(servers) ==
    Cardinality({ i \in DOMAIN servers : servers[i].ready })

\* health_check suspends in the GET of the namespace (manager.py:383).
sidecar_health_check ==
    /\ CanIssue
    /\ sup_ops' = sup_ops + 1
    /\ sup_calls' = Suspend(HealthCall("health", FALSE, 0))
    /\ UNCHANGED <<running_servers, sidecar_status, sidecar_start_time, sup_resp, clock,
                   pods, returned_ever, reissued, overwritten, stop_called>>
    /\ UNCHANGED <<mainVars, adVars, brVars, ioVars>>

\* The GET of the namespace returns or raises (manager.py:382-392): the
\* tracked servers are counted; with none the check answers at once, else it
\* suspends in _refresh_server_statuses (manager.py:393, 315).
sidecar_health_check_resume(c, reachable) ==
    /\ BagIn(c, sup_calls) /\ c.op = "health"
    /\ LET total_servers == Len(running_servers) IN
       IF total_servers > 0 THEN
            /\ sup_calls' = Resume(c) (+) SetToBag({HealthCall("health_refresh", reachable,
                                                               total_servers)})
            /\ UNCHANGED sup_resp
       ELSE
            /\ sup_calls' = Resume(c)
            /\ sup_resp' = HealthResp(overall_healthy(reachable, total_servers, 0))
    /\ UNCHANGED <<running_servers, sidecar_status, sidecar_start_time, sup_ops, clock,
                   pods, returned_ever, reissued, overwritten, stop_called>>
    /\ UNCHANGED <<mainVars, adVars, brVars, ioVars>>

\* The pod list of the refresh returns `listing` ([] when the request
\* failed): the statuses are refreshed, the ready servers counted and the
\* response built without suspending again (manager.py:393-412, 312-332).
sidecar_health_check_refresh(c, cluster, listing) ==
    /\ BagIn(c, sup_calls) /\ c.op = "health_refresh"
    /\ cluster \in Clusters
    /\ listing \in AllListings(cluster) \cup {<<>>}
    /\ sup_calls' = Resume(c)
    /\ pods' = cluster
    /\ running_servers' = [i \in DOMAIN running_servers |->
                              RefreshEntry(running_servers[i], listing)]
    /\ sup_resp' = HealthResp(overall_healthy(c.k8s_healthy, c.total_servers,
                                              HealthyServers(running_servers')))
    /\ UNCHANGED <<sidecar_status, sidecar_start_time, sup_ops, clock, returned_ever,
                   reissued, overwritten, stop_called>>
    /\ UNCHANGED <<mainVars, adVars, brVars, ioVars>>

\* The supervisor process is restarted: the calls in progress are lost with
\* the old process and __init__ runs again (manager.py:23-57).  The pods of
\* the namespace stay, each with the labels and the server-config annotation
\* it was created with (pod_manager.py:176-186).
process_restart ==
    /\ running_servers' = <<>>
    /\ sidecar_status' = "stopped"
    /\ sidecar_start_time' = NoTime
    /\ sup_calls' = EmptyBag
    /\ sup_resp' = NoResp
    /\ UNCHANGED <<sup_ops, clock, pods, returned_ever, reissued, overwritten, stop_called>>
    /\ UNCHANGED <<mainVars, adVars, brVars, ioVars>>

(***************************************************************************)
(* The HTTP routes of the sidecar service  (sidecar/main.py:73-160)        *)
(***************************************************************************)
\* The module global set by lifespan before the first request is served
\* (main.py:31-35).
sidecar_manager == "MCPSidecarManager"

\* `except Exception as e: raise HTTPException(status_code=500, ...)` at the
\* end of every route (main.py:102-104, 136-138, 158-160): HTTPException is
\* an Exception, so the HTTPException a route raises inside its own try
\* block is caught there and replaced by a 500.
ExceptException(raised) == 500

\* The status code with which a route answers the MCPResponse `result` of
\* the manager call it awaited: /status (main.py:90-104), /servers/start
\* (main.py:107-138), /servers/stop (main.py:141-160), /health
\* (main.py:73-87, whose except clause raises 503).
sidecar_route(result) ==
    CASE result.op = "status" ->
            IF sidecar_manager = None THEN ExceptException(503)
            ELSE IF result.success THEN 200 ELSE ExceptException(500)
      [] result.op \in {"start", "stop", "stop_all"} ->
            IF sidecar_manager = None THEN ExceptException(503)
            ELSE IF result.success THEN 200 ELSE ExceptException(400)
      [] OTHER ->
            IF sidecar_manager # None /\ result.success THEN 200 ELSE 503

(***************************************************************************)
(* The log lookup of the main service for an external server               *)
(* (server/services/kubernetes_mcp_manager.py:265-303).                    *)
(***************************************************************************)
\* SidecarConfig.pod_name_prefix (config.py:145), the prefix GenPodName
\* leaves out.
pod_name_prefix == "mcp"

\* The name of the pod start_server creates (manager.py:152-154), as its
\* hyphen-separated parts.
CreatedPodName(pod) == <<pod_name_prefix>> \o pod

\* The pod names _fetch_mcp_container_logs asks the pod-log API for, in
\* order: f"mcp-{server_id}" and, after a 404, f"archon-mcp-{server_id}"
\* (kubernetes_mcp_manager.py:283, 294), as their hyphen-separated parts.
external_pod_name(server_id) ==
    << <<"mcp">> \o server_id, <<"archon", "mcp">> \o server_id >>

(***************************************************************************)
(* The main service: environment and values.                               *)
(***************************************************************************)
\* DockerManager._min_operation_interval (mcp_api.py:100), in seconds.
_min_operation_interval == 2

\* time.time() at process start.  DockerManager starts with
\* _last_operation_time = 0 (mcp_api.py:99), the epoch, which lies more than
\* the interval back; the earliest such start time is taken.
WallStart == _min_operation_interval
WallEnd == WallStart + MaxClock

\* time.time() is read by the main service: `t`, no earlier than the last reading.
ReadWall(t) ==
    /\ t \in wall..WallEnd
    /\ wall' = t

\* sidecar/main.py:73-87  GET /health of the sidecar, given the success of
\* sidecar_manager.health_check(): the healthy body, or HTTP 503.
SidecarHealth(success) ==
    IF success
    THEN [raised |-> None, code |-> 200,
          body |-> [status |-> "healthy", message |-> "Sidecar health check: passed"]]
    ELSE [raised |-> None, code |-> 503, body |-> [detail |-> "Sidecar health check: failed"]]

\* What a GET /health at the sidecar URL produces: the answer of the sidecar
\* (healthy or not), a refused connection, or the answer of another service
\* listening at MCP_SIDECAR_URL whose body carries success: true.
HealthKinds == {"healthy", "unhealthy", "unreachable", "other"}

HealthAnswer(kind) ==
    CASE kind = "healthy"     -> SidecarHealth(TRUE)
      [] kind = "unhealthy"   -> SidecarHealth(FALSE)
      [] kind = "unreachable" -> [raised |-> "ConnectError", code |-> 0, body |-> <<>>]
      [] OTHER                -> [raised |-> None, code |-> 200,
                                  body |-> [success |-> TRUE, status |-> "healthy"]]

\* dict.get(key, default)
Get(d, key, default) == IF key \in DOMAIN d THEN d[key] ELSE default

\* MCPSidecarClient.health_check (sidecar_client.py:68-88): the JSON body of
\* the answer; raise_for_status() raises on a 4xx/5xx code.
health_check(answer) ==
    IF answer.raised = "ConnectError"
    THEN [success |-> FALSE, status |-> "unreachable"]
    ELSE IF answer.code >= 400
    THEN [success |-> FALSE, status |-> "error"]
    ELSE answer.body

\* MCPSidecarClient.is_available (sidecar_client.py:243-249)
is_available(answer) == Get(health_check(answer), "success", FALSE)

\* The environments of the process.
Envs == [health : HealthKinds, deployment_mode : {"kubernetes", ""}, docker : BOOLEAN]

\* The container states the Docker daemon reports for archon-mcp.
ContainerStates == {"running", "exited", "not_found"}

\* A request in progress.  `at` is the time and `seq` the order in which the
\* call entered the bound manager's start_server/stop_server (NoTime, 0
\* before); requests that have not entered yet differ in nothing else.
ApiCall(op, pc) == [op |-> op, pc |-> pc, at |-> NoTime, seq |-> 0]

\* The call moves on to position pc.
Move(c, pc, at, seq) ==
    /\ api_calls' = (api_calls (-) SetToBag({c}))
                        (+) SetToBag({[c EXCEPT !.pc = pc, !.at = at, !.seq = seq]})
    /\ UNCHANGED api_done

\* The call returns a response with this status.
Return(c, at, seq, st, success, throttled) ==
    /\ api_calls' = api_calls (-) SetToBag({c})
    /\ api_done' = api_done \cup {[op |-> c.op, status |-> st,
                                     success |-> success, throttled |-> throttled,
                                     at |-> at, seq |-> seq]}

dispVars == <<_initialized, manager, _manager_type, _initialization_lock, probes,
              probe_results>>
dockerVars == <<status, _last_operation_time, _docker_initialized, docker_client,
                container, container_state>>

(***************************************************************************)
(* MCPServerManager._ensure_initialized  (mcp_api.py:669-697)              *)
(***************************************************************************)
\* A caller that leaves _ensure_initialized: a background initialisation
\* task (mcp_api.py:838) is finished, a /start or /stop request goes on to
\* the manager call.
Proceed(c) ==
    IF c.op = "init"
    THEN api_calls' = api_calls (-) SetToBag({c}) /\ UNCHANGED api_done
    ELSE Move(c, "ready", NoTime, 0)

\* The second check left out.
RecheckSkipped == FALSE
\* mcp_api.py:675  the second check, made while holding the lock
RecheckInitialized == _initialized

\* mcp_api.py:671-679: the first check, and, with the lock free, its
\* acquisition, the second check and the call of is_available(), all without
\* suspending.  With the lock taken the caller suspends in acquire().
ensure_initialized(c) ==
    /\ BagIn(c, api_calls) /\ c.pc = "enter"
    /\ IF _initialized THEN
            /\ Proceed(c)
            /\ UNCHANGED <<_initialization_lock, probes>>
       ELSE IF ~_initialization_lock THEN
            IF RecheckInitialized THEN
                /\ Proceed(c)
                /\ UNCHANGED <<_initialization_lock, probes>>
            ELSE
                /\ _initialization_lock' = TRUE
                /\ probes' = probes + 1
                /\ Move(c, "probing", NoTime, 0)
       ELSE
            /\ Move(c, "lock_wait", NoTime, 0)
            /\ UNCHANGED <<_initialization_lock, probes>>
    /\ UNCHANGED <<_initialized, manager, _manager_type, probe_results>>
    /\ UNCHANGED <<env, wall, dockerVars, api_issued, api_entered>>
    /\ UNCHANGED <<supVars, adVars, brVars, ioVars>>

\* is_available() returns to the holder of the lock (mcp_api.py:678-697):
\* the backend is bound, _initialized set and the lock released.  The bound
\* object is constructed here (DockerManager.__init__ mcp_api.py:89-102,
\* KubernetesMCPManager.__init__ kubernetes_mcp_manager.py:26-40).
is_available_returns(c) ==
    /\ BagIn(c, api_calls) /\ c.pc = "probing"
    /\ LET available == is_available(HealthAnswer(env.health))
           deployment_mode == env.deployment_mode
       IN  /\ probe_results' = probe_results \cup {available}
           /\ IF available THEN
                   /\ manager' = "MCPSidecarClient"
                   /\ _manager_type' = "sidecar"
                   /\ UNCHANGED status
              ELSE IF deployment_mode = "kubernetes" THEN
                   /\ manager' = "KubernetesMCPManager"
                   /\ _manager_type' = "kubernetes"
                   /\ status' = "unknown"
              ELSE
                   /\ manager' = "DockerManager"
                   /\ _manager_type' = "docker"
                   /\ status' = "stopped"
    /\ _initialized' = TRUE
    /\ _initialization_lock' = FALSE
    /\ Proceed(c)
    /\ UNCHANGED <<env, wall, container_state, _last_operation_time, _docker_initialized,
                   docker_client, container, api_issued, api_entered, probes>>
    /\ UNCHANGED <<supVars, adVars, brVars, ioVars>>

\* A caller suspended in acquire() gets the released lock (mcp_api.py:674-676)
\* and makes the second check.
lock_acquired(c) ==
    /\ BagIn(c, api_calls) /\ c.pc = "lock_wait"
    /\ ~_initialization_lock
    /\ IF RecheckInitialized THEN
            /\ Proceed(c)
            /\ UNCHANGED <<_initialization_lock, probes>>
       ELSE
            /\ _initialization_lock' = TRUE
            /\ probes' = probes + 1
            /\ Move(c, "probing", NoTime, 0)
    /\ UNCHANGED <<_initialized, manager, _manager_type, probe_results>>
    /\ UNCHANGED <<env, wall, dockerVars, api_issued, api_entered>>
    /\ UNCHANGED <<supVars, adVars, brVars, ioVars>>

(***************************************************************************)
(* DockerManager  (mcp_api.py:86-525)                                      *)
(***************************************************************************)
\* mcp_api.py:121-146  _initialize_docker_client: its return value and the
\* docker_client and container fields it leaves (_docker_initialized is
\* true afterwards).  docker.from_env() succeeds when the daemon is reachable;
\* _resolve_container (mcp_api.py:104-119) finds the container or not.
_initialize_docker_client ==
    IF _docker_initialized THEN
        [result |-> docker_client, docker_client |-> docker_client, container |-> container]
    ELSE IF env.deployment_mode = "kubernetes" THEN
        [result |-> FALSE, docker_client |-> docker_client, container |-> container]
    ELSE IF env.docker THEN
        [result |-> TRUE, docker_client |-> TRUE, container |-> container_state # "not_found"]
    ELSE
        [result |-> FALSE, docker_client |-> FALSE, container |-> container]

\* mcp_api.py:148-174  _get_container_status once the client is initialised
\* as `d` (the daemon answers; its own failures are left out)
_get_container_status(d) ==
    IF ~d.result \/ ~d.docker_client THEN "docker_unavailable"
    ELSE container_state

\* mcp_api.py:203-204, 342-343  the throttle check on the time just read
Throttled(t) == t - _last_operation_time < _min_operation_interval

\* mcp_api.py:217-242, 356-381  the response status without a Docker client
NoDockerStatus ==
    IF env.deployment_mode = "kubernetes" THEN "kubernetes_mode" ELSE "docker_unavailable"

\* DockerManager._add_log (mcp_api.py:527-537).  Its first statement builds
\* the timestamp as datetime.now(datetime.timezone.utc), where `datetime` is
\* the class bound by `from datetime import datetime` (mcp_api.py:17); the
\* class has no attribute `timezone`, so the call raises AttributeError
\* before the entry is appended to self.logs and before the broadcast task
\* is created.
_add_log == "AttributeError"

\* What a call that left the manager with this exception answers: the
\* routes' `except Exception` turns it into HTTPException(500)
\* (mcp_api.py:857-861, 876-880).
Raised(exception) == "http_500"

\* DockerManager.start_server (mcp_api.py:199-336): the throttle check under
\* _operation_lock, which is released before the operation itself, then the
\* operation.  `started` is whether container.start() succeeded.  When it
\* did, status = "starting" and the operation time are set and _add_log
\* (line 269) raises; `except Exception` sets status = "failed" and calls
\* _add_log again (line 326), which raises out of start_server.  When
\* container.start() raised APIError, its handler sets status = "failed"
\* and _add_log (line 315) raises out of start_server.  Nothing suspends on
\* the way, and the sleep at line 279 is not reached.
docker_start_server(c, t, seq, started) ==
    /\ ReadWall(t)
    /\ IF Throttled(t) THEN
            /\ Return(c, t, seq, status, FALSE, TRUE)
            /\ UNCHANGED dockerVars
       ELSE LET d == _initialize_docker_client
                container_status == _get_container_status(d)
            IN  /\ _docker_initialized' = TRUE
                /\ docker_client' = d.docker_client
                /\ container' = d.container
                /\ IF ~d.result \/ ~d.docker_client THEN
                        /\ Return(c, t, seq, NoDockerStatus, FALSE, FALSE)
                        /\ UNCHANGED <<status, _last_operation_time, container_state>>
                   ELSE IF container_status \in {"not_found", "running"} THEN
                        /\ Return(c, t, seq, container_status, FALSE, FALSE)
                        /\ UNCHANGED <<status, _last_operation_time, container_state>>
                   ELSE IF started THEN
                        /\ container_state' = "running"
                        /\ _last_operation_time' = t
                        /\ status' = "failed"
                        /\ Return(c, t, seq, Raised(_add_log), FALSE, FALSE)
                   ELSE
                        /\ status' = "failed"
                        /\ Return(c, t, seq, Raised(_add_log), FALSE, FALSE)
                        /\ UNCHANGED <<_last_operation_time, container_state>>

\* DockerManager.stop_server (mcp_api.py:338-451): the throttle check, the
\* status checks, then status = "stopping" (line 397) and _add_log (line
\* 398), which raises; `except Exception` calls _add_log again (line 441),
\* which raises out of stop_server.  container.stop() (line 411) is not
\* reached, and neither handler assigns status.
docker_stop_server(c, t, seq) ==
    /\ ReadWall(t)
    /\ IF Throttled(t) THEN
            /\ Return(c, t, seq, status, FALSE, TRUE)
            /\ UNCHANGED dockerVars
       ELSE LET d == _initialize_docker_client
                container_status == _get_container_status(d)
            IN  /\ _docker_initialized' = TRUE
                /\ docker_client' = d.docker_client
                /\ container' = d.container
                /\ UNCHANGED <<_last_operation_time, container_state>>
                /\ IF ~d.result \/ ~d.docker_client THEN
                        /\ Return(c, t, seq, NoDockerStatus, FALSE, FALSE)
                        /\ UNCHANGED status
                   ELSE IF container_status \notin {"running", "restarting"} THEN
                        /\ Return(c, t, seq, container_status, FALSE, FALSE)
                        /\ UNCHANGED status
                   ELSE
                        /\ status' = "stopping"
                        /\ Return(c, t, seq, Raised(_add_log), FALSE, FALSE)

\* mcp_api.py:476-487  status_map.get(container_status, "unknown")
status_map(container_status) ==
    CASE container_status = "running"            -> "running"
      [] container_status = "restarting"         -> "restarting"
      [] container_status = "paused"             -> "paused"
      [] container_status \in {"exited", "dead", "created"} -> "stopped"
      [] container_status = "removing"           -> "stopping"
      [] container_status = "not_found"          -> "not_found"
      [] container_status = "docker_unavailable" -> "docker_unavailable"
      [] container_status = "error"              -> "error"
      [] OTHER                                   -> "unknown"

(***************************************************************************)
(* MCPServerManager.start_server, stop_server, get_status and the routes   *)
(* (mcp_api.py:699-743, 824-904)                                           *)
(***************************************************************************)
\* POST /start or /stop arrives (mcp_api.py:841-884); the handler begins
\* with `await mcp_manager._ensure_initialized()`.
route_control(op) ==
    /\ api_issued < MaxRequests
    /\ api_issued' = api_issued + 1
    /\ api_calls' = api_calls (+) SetToBag({ApiCall(op, "enter")})
    /\ UNCHANGED <<env, wall, dispVars, dockerVars, api_entered, api_done>>
    /\ UNCHANGED <<supVars, adVars, brVars, ioVars>>

\* MCPServerManager.start_server after _ensure_initialized (mcp_api.py:
\* 701-708) and the bound manager's start_server:
\*   DockerManager         as docker_start_server;
\*   KubernetesMCPManager  (kubernetes_mcp_manager.py:66-93) reports whether
\*                         the MCP service answers its health check (`ok`);
\*   MCPSidecarClient      (sidecar_client.py:90-106) relays the answer to
\*                         its POST, or "error" when the POST fails (`ok` false).
mgr_start_server(c, t, ok) ==
    /\ BagIn(c, api_calls) /\ c.pc = "ready" /\ c.op = "start"
    /\ api_entered' = api_entered + 1
    /\ LET seq == api_entered + 1 IN
       IF manager = None THEN
            /\ Return(c, NoTime, seq, "unavailable", FALSE, FALSE)
            /\ UNCHANGED <<wall, dockerVars>>
       ELSE IF manager = "DockerManager" THEN
            docker_start_server(c, t, seq, ok)
       ELSE IF manager = "KubernetesMCPManager" THEN
            /\ status' = IF ok THEN "running" ELSE "unhealthy"
            /\ Return(c, NoTime, seq, status', ok, FALSE)
            /\ UNCHANGED <<wall, _last_operation_time, _docker_initialized, docker_client,
                           container, container_state>>
       ELSE
            /\ Return(c, NoTime, seq, IF ok THEN "running" ELSE "error", ok, FALSE)
            /\ UNCHANGED <<wall, dockerVars>>
    /\ UNCHANGED <<env, dispVars, api_issued>>
    /\ UNCHANGED <<supVars, adVars, brVars, ioVars>>

\* MCPServerManager.stop_server after _ensure_initialized (mcp_api.py:
\* 710-719) and the bound manager's stop_server:
\*   DockerManager         as docker_stop_server;
\*   KubernetesMCPManager  (kubernetes_mcp_manager.py:95-107) always answers
\*                         "kubernetes_managed";
\*   MCPSidecarClient      (sidecar_client.py:108-124) as for start.
mgr_stop_server(c, t, ok) ==
    /\ BagIn(c, api_calls) /\ c.pc = "ready" /\ c.op = "stop"
    /\ api_entered' = api_entered + 1
    /\ LET seq == api_entered + 1 IN
       IF manager = None THEN
            /\ Return(c, NoTime, seq, "unavailable", FALSE, FALSE)
            /\ UNCHANGED <<wall, dockerVars>>
       ELSE IF manager = "DockerManager" THEN
            docker_stop_server(c, t, seq)
       ELSE IF manager = "KubernetesMCPManager" THEN
            /\ Return(c, NoTime, seq, "kubernetes_managed", TRUE, FALSE)
            /\ UNCHANGED <<wall, dockerVars>>
       ELSE
            /\ Return(c, NoTime, seq, IF ok THEN "stopped" ELSE "error", ok, FALSE)
            /\ UNCHANGED <<wall, dockerVars>>
    /\ UNCHANGED <<env, dispVars, api_issued>>
    /\ UNCHANGED <<supVars, adVars, brVars, ioVars>>

\* DockerManager.get_status (mcp_api.py:453-525): the status it returns
docker_get_status(d) ==
    IF ~d.result THEN NoDockerStatus
    ELSE status_map(_get_container_status(d))

\* GET /status (mcp_api.py:831-904).  try_mcp_initialization starts
\* _ensure_initialized as a background task when the manager is not yet
\* initialised; MCPServerManager.get_status (mcp_api.py:721-743) then
\* answers without suspending:
\*   DockerManager         docker_get_status, which also stores the status;
\*   KubernetesMCPManager  (kubernetes_mcp_manager.py:109-164) the health
\*                         of the MCP service (`ok`);
\*   MCPSidecarClient      has no get_status: the attribute lookup raises
\*                         and the route answers HTTP 500.
route_status(ok) ==
    /\ api_issued < MaxRequests
    /\ api_issued' = api_issued + 1
    /\ api_calls' = IF _initialized THEN api_calls
                    ELSE api_calls (+) SetToBag({ApiCall("init", "enter")})
    /\ LET d == _initialize_docker_client
           Answer(st) == api_done' = api_done \cup
                            {[op |-> "status", status |-> st,
                              success |-> FALSE, throttled |-> FALSE, at |-> NoTime,
                              seq |-> 0]}
       IN  IF ~_initialized THEN
                /\ Answer("initializing")
                /\ UNCHANGED dockerVars
           ELSE IF manager = None THEN
                /\ Answer("unavailable")
                /\ UNCHANGED dockerVars
           ELSE IF manager = "DockerManager" THEN
                /\ _docker_initialized' = TRUE
                /\ docker_client' = d.docker_client
                /\ container' = d.container
                /\ status' = IF d.result THEN docker_get_status(d) ELSE status
                /\ Answer(docker_get_status(d))
                /\ UNCHANGED <<_last_operation_time, container_state>>
           ELSE IF manager = "KubernetesMCPManager" THEN
                /\ status' = IF ok THEN "running" ELSE "unhealthy"
                /\ Answer(status')
                /\ UNCHANGED <<_last_operation_time, _docker_initialized, docker_client,
                               container, container_state>>
           ELSE
                /\ Answer("http_500")
                /\ UNCHANGED dockerVars
    /\ UNCHANGED <<env, wall, dispVars, api_entered>>
    /\ UNCHANGED <<supVars, adVars, brVars, ioVars>>

(***************************************************************************)
(* ProtocolAdapter  (server/mcp_kubernetes/protocols/adapters.py:121-265)  *)
(* with the connect, disconnect and send_message of its subclasses         *)
(* (stdio_adapter.py, sse_adapter.py).                                     *)
(***************************************************************************)
\* A send_request call: its position ("sending" in send_message, "waiting"
\* in wait_for, "done"), whether its request was handed to the transport,
\* and once done how it ended, the id of the Response that completed it (0
\* without one) and is_connected as it ended.
AdCall(pc, sent, outcome, got, connected) ==
    [pc |-> pc, sent |-> sent, outcome |-> outcome, got |-> got, connected |-> connected]

\* An asyncio.Future: pending, or done with a result, an exception or
\* cancelled; `by` is the id of the Response it was completed with.
Future(state, by) == [state |-> state, by |-> by]

\* An incoming Response (MCPMessage with type RESPONSE): its id and whether
\* it carries an error.
Response(id, error) == [id |-> id, error |-> error]

\* deque(maxlen=...).append: at the capacity the oldest entry is discarded.
DequeAppend(q, x, cap) ==
    IF Len(q) < cap THEN Append(q, x) ELSE Append(Tail(q), x)

\* The call ends.
EndCall(i, outcome, got) ==
    requests' = [requests EXCEPT ![i] = AdCall("done", @.sent, outcome, got, is_connected)]

\* How a call ends on a done future (the value wait_for returns or raises).
FutureOutcome(fut) == IF fut.state = "exception" THEN "rpc_error" ELSE "result"

\* connect of the subclasses (stdio_adapter.py:23-34, sse_adapter.py:23-38)
connect ==
    /\ ~is_connected
    /\ is_connected' = TRUE
    /\ UNCHANGED <<pending_requests, futures, requests, incoming, answered>>
    /\ UNCHANGED <<supVars, mainVars, brVars, ioVars>>

\* disconnect of the subclasses (stdio_adapter.py:36-38, sse_adapter.py:
\* 40-44): is_connected is cleared; pending_requests is not touched.
disconnect ==
    /\ is_connected
    /\ is_connected' = FALSE
    /\ UNCHANGED <<pending_requests, futures, requests, incoming, answered>>
    /\ UNCHANGED <<supVars, mainVars, brVars, ioVars>>

\* The stream of the session fails: the listener of the SSE adapter catches
\* the exception and clears is_connected (sse_adapter.py:95-97); nothing else
\* is done for the requests that are pending.
stream_fails ==
    /\ is_connected
    /\ is_connected' = FALSE
    /\ UNCHANGED <<pending_requests, futures, requests, incoming, answered>>
    /\ UNCHANGED <<supVars, mainVars, brVars, ioVars>>

\* send_request up to its first suspension (adapters.py:155-171).  The
\* request id is a fresh uuid4, modelled by the next unused number.  The
\* future is stored, then send_message is awaited: not connected, it
\* returns False at once (stdio_adapter.py:42-43, sse_adapter.py:48-49) and
\* the call raises after popping its id (adapters.py:181-183).
send_request ==
    /\ Len(requests) < MaxCalls
    /\ LET request_id == Len(requests) + 1 IN
       /\ futures' = Append(futures, Future("pending", 0))
       /\ IF ~is_connected THEN
               /\ requests' = Append(requests, AdCall("done", FALSE, "send_failed", 0, FALSE))
               /\ UNCHANGED pending_requests
          ELSE
               /\ requests' = Append(requests, AdCall("sending", TRUE, None, 0, TRUE))
               /\ pending_requests' = pending_requests \cup {request_id}
    /\ UNCHANGED <<is_connected, incoming, answered>>
    /\ UNCHANGED <<supVars, mainVars, brVars, ioVars>>

\* send_message returns `success` (adapters.py:171-177): False (the POST did
\* not answer 200, the write raised) raises "Failed to send request" after
\* popping the id; True goes on to wait_for, which returns at once when the
\* future is already done.
send_message_returns(i, success) ==
    /\ i \in DOMAIN requests /\ requests[i].pc = "sending"
    /\ IF ~success THEN
            /\ pending_requests' = pending_requests \ {i}
            /\ EndCall(i, "send_failed", 0)
       ELSE IF futures[i].state # "pending" THEN
            /\ EndCall(i, FutureOutcome(futures[i]), futures[i].by)
            /\ UNCHANGED pending_requests
       ELSE
            /\ requests' = [requests EXCEPT ![i].pc = "waiting"]
            /\ UNCHANGED pending_requests
    /\ UNCHANGED <<is_connected, futures, incoming, answered>>
    /\ UNCHANGED <<supVars, mainVars, brVars, ioVars>>

\* The peer answers a request that was handed to the transport, with a
\* result or an error; it answers the requests in any order, at any time
\* after they were handed over, or never.
peer_responds(i, error) ==
    /\ i \in DOMAIN requests /\ requests[i].sent
    /\ i \notin answered
    /\ incoming' = incoming \cup {Response(i, error)}
    /\ answered' = answered \cup {i}
    /\ UNCHANGED <<is_connected, pending_requests, futures, requests>>
    /\ UNCHANGED <<supVars, mainVars, brVars, ioVars>>

\* Some other pending request: the one stored first.
OldestPending(message) ==
    IF pending_requests = {} THEN message.id
    ELSE CHOOSE k \in pending_requests : \A j \in pending_requests : k <= j
\* adapters.py:248-249  the key under which _handle_response looks up the
\* future: request_id = message.id
FutureKey(message) == message.id

\* An incoming Response reaches handle_incoming_message and _handle_response
\* (adapters.py:196-206, 246-255); the reading loops deliver only while
\* connected (stdio_adapter.py:79-88, sse_adapter.py:73-97).  The message
\* is stored in message_queue; the future is popped and, when not done,
\* completed; a call waiting in wait_for then ends with the result or the
\* "RPC Error" exception.
handle_response(message) ==
    /\ message \in incoming
    /\ is_connected
    /\ incoming' = incoming \ {message}
    /\ LET request_id == FutureKey(message) IN
       IF request_id \in pending_requests THEN
            /\ pending_requests' = pending_requests \ {request_id}
            /\ IF futures[request_id].state = "pending" THEN
                    LET fut == Future(IF message.error THEN "exception" ELSE "result",
                                      message.id)
                    IN  /\ futures' = [futures EXCEPT ![request_id] = fut]
                        /\ IF requests[request_id].pc = "waiting"
                           THEN EndCall(request_id, FutureOutcome(fut), fut.by)
                           ELSE UNCHANGED requests
               ELSE UNCHANGED <<futures, requests>>
       ELSE UNCHANGED <<pending_requests, futures, requests>>
    /\ message_queue' = DequeAppend(message_queue, message, maxlen)
    /\ UNCHANGED <<message_handlers, handling, wire, outbox, arrived, delivered,
                   bridges, forwarded>>
    /\ UNCHANGED <<is_connected, answered>>
    /\ UNCHANGED <<supVars, mainVars, brVars, restVars>>

\* The timer never expires.
WaitForNever(fut) == FALSE
\* adapters.py:176  asyncio.wait_for(future, timeout) expires on a future
\* that is not done
WaitForExpires(fut) == fut.state = "pending"

\* The timeout of wait_for expires (adapters.py:176-180): the future is
\* cancelled, the id popped and TimeoutError raised.
wait_for_timeout(i) ==
    /\ i \in DOMAIN requests /\ requests[i].pc = "waiting"
    /\ WaitForExpires(futures[i])
    /\ futures' = [futures EXCEPT ![i] = Future("cancelled", 0)]
    /\ pending_requests' = pending_requests \ {i}
    /\ EndCall(i, "timeout", 0)
    /\ UNCHANGED <<is_connected, incoming, answered>>
    /\ UNCHANGED <<supVars, mainVars, brVars, ioVars>>

\* The task awaiting send_request is cancelled: CancelledError is no
\* Exception, so neither handler at adapters.py:179-184 runs and the id
\* stays in pending_requests; wait_for cancels the future it waits on.
cancel(i) ==
    /\ i \in DOMAIN requests /\ requests[i].pc \in {"sending", "waiting"}
    /\ futures' = IF requests[i].pc = "waiting"
                  THEN [futures EXCEPT ![i] = Future("cancelled", 0)]
                  ELSE futures
    /\ EndCall(i, "cancelled", 0)
    /\ UNCHANGED <<is_connected, pending_requests, incoming, answered>>
    /\ UNCHANGED <<supVars, mainVars, brVars, ioVars>>

(***************************************************************************)
(* MCPMessage  (server/mcp_kubernetes/protocols/adapters.py:37-118) and    *)
(* its JSON-RPC conversions.                                               *)
(***************************************************************************)
\* An MCPMessage without its timestamp and protocol tags.  type is the value
\* of the MessageType; params, result and error are None or a JSON value,
\* written as the text of the value.
MCPMessage(id, type, method, params, result, error) ==
    [id |-> id, type |-> type, method |-> method, params |-> params,
     result |-> result, error |-> error]

\* A key a JSON object does not have.
Absent == "absent"

\* A JSON-RPC object (a Python dict): each key with its value, or Absent.
JsonObject(jsonrpc, id, method, params, result, error) ==
    [jsonrpc |-> jsonrpc, id |-> id, method |-> method, params |-> params,
     result |-> result, error |-> error]

\* Python's truth value of a field: None, the empty string and the empty
\* dict are false.
Truthy(v) == v \notin {None, "", "{}"}

\* The str(uuid.uuid4()) from_jsonrpc draws for an object without "id"
\* (adapters.py:77): a value no message of the model carries as its id.
Uuid == "uuid4"

\* adapters.py:49-72
to_jsonrpc(m) ==
    LET message == JsonObject("2.0", m.id, Absent, Absent, Absent, Absent) IN
    CASE m.type = "request" ->
            [message EXCEPT !.method = m.method,
                            !.params = IF Truthy(m.params) THEN m.params ELSE Absent]
      [] m.type = "response" ->
            IF Truthy(m.error) THEN [message EXCEPT !.error = m.error]
                               ELSE [message EXCEPT !.result = m.result]
      [] m.type = "notification" ->
            [message EXCEPT !.method = m.method,
                            !.params = IF Truthy(m.params) THEN m.params ELSE Absent,
                            !.id = Absent]
      [] OTHER -> message

\* dict.get(key, default)
JsonGet(data, key, default) == IF data[key] = Absent THEN default ELSE data[key]

\* adapters.py:74-100
from_jsonrpc(data) ==
    LET msg_id == JsonGet(data, "id", Uuid) IN
    IF data.method # Absent
    THEN MCPMessage(msg_id, IF data.id # Absent THEN "request" ELSE "notification",
                    data.method, JsonGet(data, "params", None), None, None)
    ELSE MCPMessage(msg_id, "response", None, None,
                    JsonGet(data, "result", None), JsonGet(data, "error", None))

\* A conversion there and back: the message made, its to_jsonrpc() and the
\* from_jsonrpc() of that, each blank until it is computed.
Trip(pc, made, data, back) == [pc |-> pc, made |-> made, data |-> data, back |-> back]
BlankMessage == MCPMessage("", "none", None, None, None, None)
BlankObject == JsonObject(Absent, Absent, Absent, Absent, Absent, Absent)
NoTrip == Trip("none", BlankMessage, BlankObject, BlankMessage)

\* A message is constructed (adapters.py:37-47).
make_message(m) ==
    /\ roundtrip.pc = "none"
    /\ roundtrip' = Trip("made", m, BlankObject, BlankMessage)
    /\ UNCHANGED <<supVars, mainVars, adVars, brVars, inVars, execVars, moreVars>>

\* m.to_jsonrpc() is called.
encode_message ==
    /\ roundtrip.pc = "made"
    /\ roundtrip' = [roundtrip EXCEPT !.pc = "encoded", !.data = to_jsonrpc(roundtrip.made)]
    /\ UNCHANGED <<supVars, mainVars, adVars, brVars, inVars, execVars, moreVars>>

\* MCPMessage.from_jsonrpc() is called on the JSON-RPC form.
decode_message ==
    /\ roundtrip.pc = "encoded"
    /\ roundtrip' = [roundtrip EXCEPT !.pc = "decoded", !.back = from_jsonrpc(roundtrip.data)]
    /\ UNCHANGED <<supVars, mainVars, adVars, brVars, inVars, execVars, moreVars>>

(***************************************************************************)
(* PodManager  (server/mcp_kubernetes/sidecar/pod_manager.py:20-188)       *)
(***************************************************************************)
\* The ServerConfig fields create_pod_manifest reads, args as a list.
PodConfig(type, transport, package, args) ==
    [server_type |-> type, transport |-> transport, package |-> package, args |-> args]

\* No configuration yet.
NoPodConfig == PodConfig(None, None, None, <<>>)

\* `x or ""`
OrEmpty(x) == IF x = None THEN "" ELSE x

\* pod_manager.py:37-39  the shell command of a uv server, as one string
InstallCmd(package, transport) ==
    CASE package = None /\ transport # "stdio" -> "pip install uv && uv run --with "
      [] package = None /\ transport = "stdio" -> "pip install uv && uv run --with  stdio"
      [] package # None /\ transport # "stdio" -> "pip install uv && uv run --with pkg"
      [] OTHER                                 -> "pip install uv && uv run --with pkg stdio"

\* pod_manager.py:48  `args = server_config.args or ["-m", package or ""]`:
\* a non-empty server_config.args is bound to `args` as the same list
\* object, an empty one is replaced by a new list.
ArgsObject(cfg) == IF cfg.args # <<>> THEN "config" ELSE "new"

\* get_server_image_and_config (pod_manager.py:20-74): the tuple it returns
\* and server_config as the call leaves it.  `args.append("stdio")` at
\* pod_manager.py:50 appends to whatever list `args` is bound to.
get_server_image_and_config(cfg) ==
    LET stdio == cfg.transport = "stdio" IN
    CASE cfg.server_type = "npx" ->
            [image |-> "node:18-alpine", command |-> <<"npx">>,
             args |-> <<"-y", OrEmpty(cfg.package)>> \o (IF stdio THEN <<"stdio">> ELSE <<>>),
             env |-> <<"NODE_ENV", "NPM_CONFIG_UPDATE_NOTIFIER">>,
             config |-> cfg]
      [] cfg.server_type = "uv" ->
            [image |-> "python:3.12-slim", command |-> <<"sh", "-c">>,
             args |-> <<InstallCmd(cfg.package, cfg.transport)>>,
             env |-> <<"PYTHONUNBUFFERED", "UV_NO_CACHE">>,
             config |-> cfg]
      [] cfg.server_type = "python" ->
            LET first == IF cfg.args # <<>> THEN cfg.args
                         ELSE <<"-m", OrEmpty(cfg.package)>>
                args  == IF stdio THEN Append(first, "stdio") ELSE first
            IN  [image |-> "python:3.12-slim", command |-> <<"python">>,
                 args |-> args,
                 env |-> <<"PYTHONUNBUFFERED">>,
                 config |-> IF ArgsObject(cfg) = "config"
                            THEN [cfg EXCEPT !.args = args] ELSE cfg]
      [] cfg.server_type = "docker" ->
            [image |-> "alpine:latest", command |-> <<>>,
             args |-> cfg.args, env |-> <<>>, config |-> cfg]
      [] OTHER ->
            [image |-> "archon-mcp:latest", command |-> <<"python", "-m", "src.mcp.mcp_server">>,
             args |-> <<>>,
             env |-> <<"ARCHON_MCP_HOST", "ARCHON_MCP_PORT", "LOG_LEVEL", "DEPLOYMENT_MODE",
                       "SERVICE_DISCOVERY_MODE", "KUBERNETES_NAMESPACE">>,
             config |-> cfg]

\* The parts of the manifest that depend on the configuration
\* (pod_manager.py:100-188): image, env, command and args of the container
\* ("command" and "args" are set when not empty, pod_manager.py:127-130),
\* the stdin flag and the labels.
Manifest(pod_name, cfg, parts) ==
    [name |-> pod_name, image |-> parts.image, env |-> parts.env,
     command |-> parts.command, args |-> parts.args,
     stdin |-> cfg.transport = "stdio",
     server_type |-> cfg.server_type, transport |-> cfg.transport]

\* The pod name the caller passes (manager.py:152-154).
PodName == "mcp-server-0"

\* create_pod_manifest(pod_name, server_config) is called on the caller's
\* ServerConfig (pod_manager.py:76-188).
create_pod_manifest ==
    /\ Len(built) < MaxBuilds
    /\ LET parts == get_server_image_and_config(server_config) IN
       /\ server_config' = parts.config
       /\ built' = Append(built, [config |-> server_config,
                                  manifest |-> Manifest(PodName, server_config, parts)])
    /\ UNCHANGED <<supVars, mainVars, adVars, brVars, inVars, codecVars, execVars, wsVars>>

(***************************************************************************)
(* The log WebSockets and _broadcast_log of KubernetesMCPManager           *)
(* (kubernetes_mcp_manager.py:240-263, 426-451).  DockerManager has the    *)
(* same _broadcast_log, add_websocket and remove_websocket                 *)
(* (mcp_api.py:539-550, 638-653), but its _add_log raises before it        *)
(* creates the task.                                                       *)
(***************************************************************************)
WebSockets == {"ws1", "ws2"}

\* The elements of a list.
Elements(list) == { list[n] : n \in DOMAIN list }

\* list.remove(x): the list without the first occurrence of x
ListRemove(list, x) ==
    LET n == CHOOSE n \in DOMAIN list : list[n] = x /\ \A m \in 1..(n - 1) : list[m] # x
    IN  SubSeq(list, 1, n - 1) \o SubSeq(list, n + 1, Len(list))

\* A _broadcast_log task: where it is ("created" before its first run,
\* "sending" in an awaited send_json, "done", or "ValueError" when it ended
\* with that exception), the number of items its list iterator has yielded,
\* the WebSocket it is sending to, and its local list `disconnected`.
BroadcastTask(pc, yielded, ws, disconnected) ==
    [pc |-> pc, yielded |-> yielded, ws |-> ws, disconnected |-> disconnected]

\* kubernetes_mcp_manager.py:261-263  `for ws in disconnected:
\* self.log_websockets.remove(ws)`: list.remove raises ValueError for an
\* element that is not in the list, and the loop has no handler.
RECURSIVE RemoveDisconnected(_, _)
RemoveDisconnected(list, disconnected) ==
    IF disconnected = <<>> THEN [list |-> list, raised |-> FALSE]
    ELSE IF Head(disconnected) \notin Elements(list) THEN [list |-> list, raised |-> TRUE]
    ELSE RemoveDisconnected(ListRemove(list, Head(disconnected)), Tail(disconnected))

\* The task runs from the head of `for ws in self.log_websockets` to its
\* next suspension (kubernetes_mcp_manager.py:255-263): the list iterator
\* yields the item at its index if the list, as it is now, has one, and the
\* task suspends in send_json; otherwise the loop is over and the removals
\* run without suspending.
RunBroadcast(task, list) ==
    IF task.yielded < Len(list) THEN
        [task |-> BroadcastTask("sending", task.yielded + 1, list[task.yielded + 1],
                                task.disconnected),
         list |-> list]
    ELSE LET r == RemoveDisconnected(list, task.disconnected) IN
        [task |-> BroadcastTask(IF r.raised THEN "ValueError" ELSE "done", task.yielded,
                                None, task.disconnected),
         list |-> r.list]

\* KubernetesMCPManager._add_log (kubernetes_mcp_manager.py:240-250): the
\* entry is appended to self.logs and a _broadcast_log task is created for
\* it; the task runs later.
kubernetes_add_log ==
    /\ Len(broadcast_tasks) < MaxLogs
    /\ broadcast_tasks' = Append(broadcast_tasks, BroadcastTask("created", 0, None, <<>>))
    /\ UNCHANGED <<log_websockets, ws_closed>>
    /\ UNCHANGED <<supVars, mainVars, adVars, brVars, inVars, codecVars, execVars, podVars>>

\* The task is run for the first time.
broadcast_log(k) ==
    /\ k \in DOMAIN broadcast_tasks
    /\ broadcast_tasks[k].pc = "created"
    /\ LET r == RunBroadcast(broadcast_tasks[k], log_websockets) IN
       /\ broadcast_tasks' = [broadcast_tasks EXCEPT ![k] = r.task]
       /\ log_websockets' = r.list
    /\ UNCHANGED ws_closed
    /\ UNCHANGED <<supVars, mainVars, adVars, brVars, inVars, codecVars, execVars, podVars>>

\* `await ws.send_json(log_entry)` is over (kubernetes_mcp_manager.py:256-259):
\* it raised if the client has gone, and the WebSocket is then collected in
\* `disconnected`; the loop goes on.
send_json_returns(k) ==
    /\ k \in DOMAIN broadcast_tasks
    /\ broadcast_tasks[k].pc = "sending"
    /\ LET task == broadcast_tasks[k]
           after == IF task.ws \in ws_closed
                    THEN [task EXCEPT !.disconnected = Append(@, task.ws)]
                    ELSE task
           r == RunBroadcast(after, log_websockets)
       IN  /\ broadcast_tasks' = [broadcast_tasks EXCEPT ![k] = r.task]
           /\ log_websockets' = r.list
    /\ UNCHANGED ws_closed
    /\ UNCHANGED <<supVars, mainVars, adVars, brVars, inVars, codecVars, execVars, podVars>>

\* add_websocket (kubernetes_mcp_manager.py:426-446) for a new connection:
\* after the accept the WebSocket is appended; the messages sent to it
\* afterwards change nothing here.
add_websocket(websocket) ==
    /\ websocket \notin Elements(log_websockets) \cup ws_closed
    /\ log_websockets' = Append(log_websockets, websocket)
    /\ UNCHANGED <<ws_closed, broadcast_tasks>>
    /\ UNCHANGED <<supVars, mainVars, adVars, brVars, inVars, codecVars, execVars, podVars>>

\* The client of a streaming WebSocket goes away: sends to it fail from now
\* on.
client_disconnects(websocket) ==
    /\ websocket \in Elements(log_websockets)
    /\ ws_closed' = ws_closed \cup {websocket}
    /\ UNCHANGED <<log_websockets, broadcast_tasks>>
    /\ UNCHANGED <<supVars, mainVars, adVars, brVars, inVars, codecVars, execVars, podVars>>

\* remove_websocket (kubernetes_mcp_manager.py:448-451), called for a
\* WebSocket whose client has gone, as the log stream route does when its
\* ping fails (mcp_api.py:1081-1090, 810-817).
remove_websocket(websocket) ==
    /\ websocket \in ws_closed
    /\ log_websockets' = IF websocket \in Elements(log_websockets)
                         THEN ListRemove(log_websockets, websocket)
                         ELSE log_websockets
    /\ UNCHANGED <<ws_closed, broadcast_tasks>>
    /\ UNCHANGED <<supVars, mainVars, adVars, brVars, inVars, codecVars, execVars, podVars>>

(***************************************************************************)
(* ProtocolAdapter, incoming side  (adapters.py:197-264) with the reading  *)
(* loop and send_message of its subclasses (stdio_adapter.py:40-88,        *)
(* sse_adapter.py:46-97).                                                  *)
(***************************************************************************)
\* A frame as it arrives (a line of the stdout queue, the data of an SSE
\* line): text that is no JSON ("invalid"), JSON that is no object
\* ("value"), or a JSON object with its keys.
Frame(json, data) == [json |-> json, data |-> data]

\* No message: the processing loop awaits no handler.
NoMsg == MCPMessage("", "none", None, None, None, None)

\* json.loads and from_jsonrpc return a message (stdio_adapter.py:64-77,
\* sse_adapter.py:85-94): json.loads raises JSONDecodeError on text that is
\* no JSON, and from_jsonrpc raises AttributeError on a value without get();
\* both are caught and the frame is dropped.
Parses(frame) == frame.json = "object"

\* The error objects of _handle_request (adapters.py:228-231, 239-242), by
\* their code.
InternalError == "{code: -32603}"
MethodNotFound == "{code: -32601}"

\* send_message of the subclasses (stdio_adapter.py:40-51, sse_adapter.py:
\* 46-65) is called with `message`: False at once when not connected; else
\* the JSON-RPC form of the message is handed to the transport, which takes
\* it or not (`posted` is false when json.dumps raises on a value it cannot
\* serialise or the POST is not answered 200; the exception is caught and
\* False returned).  The call is recorded with what it returned.
SendMessage(message, posted) ==
    outbox' = Append(outbox, [data |-> to_jsonrpc(message),
                              success |-> is_connected /\ posted])

\* register_handler (adapters.py:151-153)
register_handler(method) ==
    /\ method \notin message_handlers
    /\ message_handlers' = message_handlers \cup {method}
    /\ UNCHANGED <<message_queue, handling, wire, outbox, arrived, delivered,
                   bridges, forwarded>>
    /\ UNCHANGED <<supVars, mainVars, adVars, brVars, restVars>>

\* The peer writes a frame: it is queued behind the frames not read yet.
frame_arrives(frame) ==
    /\ Len(arrived) < MaxFrames
    /\ wire' = Append(wire, frame)
    /\ arrived' = Append(arrived, frame)
    /\ UNCHANGED <<message_handlers, message_queue, handling, outbox, delivered,
                   bridges, forwarded>>
    /\ UNCHANGED <<supVars, mainVars, adVars, brVars, restVars>>

\* _handle_response (adapters.py:246-255) for an incoming message.
HandleResponse(message) ==
    IF message.id \in pending_requests THEN
        /\ pending_requests' = pending_requests \ {message.id}
        /\ IF futures[message.id].state = "pending" THEN
                LET fut == Future(IF Truthy(message.error) THEN "exception" ELSE "result",
                                  message.id)
                IN  /\ futures' = [futures EXCEPT ![message.id] = fut]
                    /\ IF requests[message.id].pc = "waiting"
                       THEN EndCall(message.id, FutureOutcome(fut), fut.by)
                       ELSE UNCHANGED requests
           ELSE UNCHANGED <<futures, requests>>
    ELSE UNCHANGED <<pending_requests, futures, requests>>

\* The line put last is taken.
NewestLine(q) == q[Len(q)]
\* asyncio.Queue.get (stdio_adapter.py:60-62): the entry put first.
QueueGet(q) == Head(q)

\* One turn of the reading loop (stdio_adapter.py:79-88, sse_adapter.py:
\* 80-94) while connected and awaiting no handler: the oldest frame is read
\* and parsed; a frame that does not parse is dropped; a message goes to
\* handle_incoming_message (adapters.py:197-206), which stores it in
\* message_queue and dispatches on its type.  A request or notification with
\* a registered handler suspends in the handler; a request without one is
\* answered "Method not found" (adapters.py:234-244).
process_message(posted) ==
    /\ is_connected
    /\ handling = NoMsg
    /\ wire # <<>>
    /\ wire' = Tail(wire)
    /\ LET frame == QueueGet(wire)
           message == from_jsonrpc(frame.data)
       IN
       IF ~Parses(frame) THEN
            UNCHANGED <<message_queue, handling, outbox, delivered, pending_requests,
                        futures, requests>>
       ELSE
            /\ message_queue' = DequeAppend(message_queue, message, maxlen)
            /\ delivered' = Append(delivered, message)
            /\ CASE message.type = "request" /\ message.method \in message_handlers ->
                        /\ handling' = message
                        /\ UNCHANGED <<outbox, pending_requests, futures, requests>>
                 [] message.type = "request" /\ message.method \notin message_handlers ->
                        /\ SendMessage(MCPMessage(message.id, "response", None, None, None,
                                                  MethodNotFound), posted)
                        /\ UNCHANGED <<handling, pending_requests, futures, requests>>
                 [] message.type = "response" ->
                        /\ HandleResponse(message)
                        /\ UNCHANGED <<handling, outbox>>
                 [] message.type = "notification" /\ message.method \in message_handlers ->
                        /\ handling' = message
                        /\ UNCHANGED <<outbox, pending_requests, futures, requests>>
                 [] OTHER ->
                        UNCHANGED <<handling, outbox, pending_requests, futures, requests>>
    /\ UNCHANGED <<message_handlers, arrived, bridges, forwarded, is_connected, incoming,
                   answered>>
    /\ UNCHANGED <<supVars, mainVars, brVars, restVars>>

\* The handler stored under `method` is the bridge's _forward_message
\* (adapters.py:284): create_bridge stores it under "*".
IsForwarder(method) == method = "*" /\ bridges # <<>>

\* The awaited handler returns `result` (adapters.py:213-221, 262): for a
\* request the response is built and send_message awaited, its return value
\* unused; the return value of a notification handler is dropped.
handler_returns(result, posted) ==
    /\ handling # NoMsg
    /\ ~IsForwarder(handling.method)
    /\ handling' = NoMsg
    /\ IF handling.type = "request"
       THEN SendMessage(MCPMessage(handling.id, "response", None, None, result, None), posted)
       ELSE UNCHANGED outbox
    /\ UNCHANGED <<message_handlers, message_queue, wire, arrived, delivered, bridges,
                   forwarded>>
    /\ UNCHANGED <<supVars, mainVars, adVars, brVars, restVars>>

\* The awaited handler raises an Exception (adapters.py:223-233, 263-264):
\* for a request the "Internal error" response is sent; for a notification
\* the exception is logged.
handler_raises(posted) ==
    /\ handling # NoMsg
    /\ ~IsForwarder(handling.method)
    /\ handling' = NoMsg
    /\ IF handling.type = "request"
       THEN SendMessage(MCPMessage(handling.id, "response", None, None, None,
                                   InternalError), posted)
       ELSE UNCHANGED outbox
    /\ UNCHANGED <<message_handlers, message_queue, wire, arrived, delivered, bridges,
                   forwarded>>
    /\ UNCHANGED <<supVars, mainVars, adVars, brVars, restVars>>

(***************************************************************************)
(* ProtocolBridge  (adapters.py:267-296): the bridge of the one source     *)
(* adapter to its targets.                                                 *)
(***************************************************************************)
\* A send_message call on a target adapter.
Forward(target, message) == [target |-> target, message |-> message]

\* create_bridge (adapters.py:278-284): the targets are stored and
\* _forward_message is registered on the source adapter under "*".
create_bridge(target_adapter_ids) ==
    /\ bridges = <<>>
    /\ bridges' = target_adapter_ids
    /\ message_handlers' = message_handlers \cup {"*"}
    /\ UNCHANGED <<message_queue, handling, wire, outbox, arrived, delivered, forwarded>>
    /\ UNCHANGED <<supVars, mainVars, adVars, brVars, restVars>>

\* _forward_message(source_adapter_id, message) (adapters.py:286-296):
\* send_message is called on every target in turn; an exception of one call
\* is caught and the loop goes on.
_forward_message(message) ==
    forwarded' = forwarded \o [i \in 1..Len(bridges) |-> Forward(bridges[i], message)]

\* The arguments the dispatcher calls a handler with (adapters.py:213, 262):
\* message.params or {}.
HandlerArgs(message) == << IF Truthy(message.params) THEN message.params ELSE "{}" >>

\* The dispatcher calls the handler stored under "*", the bound method
\* _forward_message, which takes (source_adapter_id, message): called with
\* other than two arguments it raises TypeError before anything is forwarded,
\* and the dispatcher treats it as a handler that raised (adapters.py:
\* 223-233, 263-264).
forward_handler_called(posted) ==
    /\ handling # NoMsg
    /\ IsForwarder(handling.method)
    /\ handling' = NoMsg
    /\ IF Len(HandlerArgs(handling)) = 2
       THEN /\ _forward_message(handling)
            /\ IF handling.type = "request"
               THEN SendMessage(MCPMessage(handling.id, "response", None, None, None, None),
                                posted)
               ELSE UNCHANGED outbox
       ELSE /\ UNCHANGED forwarded
            /\ IF handling.type = "request"
               THEN SendMessage(MCPMessage(handling.id, "response", None, None, None,
                                           InternalError), posted)
               ELSE UNCHANGED outbox
    /\ UNCHANGED <<message_handlers, message_queue, wire, arrived, delivered, bridges>>
    /\ UNCHANGED <<supVars, mainVars, adVars, brVars, restVars>>

(***************************************************************************)
(* MCPStdioBridge  (server/mcp_kubernetes/stdio/bridge.py:20-391), one     *)
(* connection from its creation to its close.                              *)
(***************************************************************************)
\* The connection id create_stdio_connection returns (bridge.py:45).
ConnectionId == "pod-0"

\* self.timeout (bridge.py:25, default 30.0), in the seconds of the
\* one-second receive_message calls send_request makes; here 2.
bridge_timeout == 2

\* None where receive_message or send_request return a message, and the
\* response message that carries the id of request i.
NoMessage == <<>>
ResponseTo(i) == <<i>>

\* A send_request call at position pc: elapsed is the time since start_time
\* (bridge.py:317), response the value returned.
BridgeCall(pc, elapsed, response) == [pc |-> pc, elapsed |-> elapsed, response |-> response]

\* An exec connection: its status, its websocket, the number of entries of
\* its stdin buffer (no code takes an entry off) and its stdout buffer.
ExecConnection(st, websocket, stdin_buffer, stdout_buffer) ==
    [status |-> st, websocket |-> websocket, stdin_buffer |-> stdin_buffer,
     stdout_buffer |-> stdout_buffer]

\* No exec connection was created yet.
NoExecConnection == ExecConnection(None, None, 0, <<>>)

\* create_exec_connection (exec_handler.py:46-116): the dict is built with
\* status "created" and empty buffers, then marked "connected" with the
\* simulated websocket.
create_exec_connection == ExecConnection("connected", "simulated_websocket", 0, <<>>)

\* close_exec_connection (exec_handler.py:118-138)
close_exec_connection(connection) == [connection EXCEPT !.status = "closed"]

\* send_stdin (exec_handler.py:150-151, 159): its return value.
SendStdinReturns(connection) == connection.status = "connected"

\* The stdout and the stderr reader of one connection (bridge.py:217-218),
\* each "running" or "done".
ReaderTasks(stdout, stderr) == [stdout |-> stdout, stderr |-> stderr]

\* What a call of the bridge returned: the value, and for send_message what
\* the send_stdin it made returned ("not_called" when it made none).
Returned(op, value, stdin) == [op |-> op, value |-> value, stdin |-> stdin]
NothingReturned == Returned("none", FALSE, "not_called")

\* send_stdin (exec_handler.py:140-166): nothing when the status is not
\* "connected"; else the data is put on the stdin buffer.
SendStdin(connection, data) ==
    IF connection.status # "connected" THEN connection
    ELSE [connection EXCEPT !.stdin_buffer = @ + 1]

\* _handle_websocket_messages (exec_handler.py:259-282) when the channel
\* ends as `event`: with the simulated websocket the task returns at once and
\* observes nothing; with a websocket, an exception of the read marks the
\* connection "error" and a clean end of the stream changes nothing.
HandleWebsocketEnd(connection, event) ==
    IF connection.websocket = "simulated_websocket" THEN connection
    ELSE IF event = "io_error" THEN [connection EXCEPT !.status = "error"]
    ELSE connection

\* create_stdio_connection (bridge.py:32-81): the exec connection is created,
\* the connection is stored with status "connected" and fresh queues, and
\* the stdout reader is started.
create_stdio_connection ==
    /\ active_connections = {}
    /\ bridge_requests = <<>>
    /\ Len(readers) < MaxConnects
    /\ active_connections' = {ConnectionId}
    /\ stdout_queue' = <<>>
    /\ conn_status' = "connected"
    /\ stdin_queue' = 0
    /\ exec_conn' = create_exec_connection
    /\ channel' = "open"
    /\ readers' = Append(readers, ReaderTasks("running", "running"))
    /\ UNCHANGED returned
    /\ UNCHANGED <<bridge_requests, bridge_answered>>
    /\ UNCHANGED <<supVars, mainVars, adVars, inVars, codecVars, moreVars>>

\* close_stdio_connection (bridge.py:83-113) of a connection that is a key of
\* active_connections; with the simulated websocket nothing suspends between
\* the close of the exec connection and the removal of the key.
close_stdio_connection ==
    /\ ConnectionId \in active_connections
    /\ exec_conn' = close_exec_connection(exec_conn)
    /\ active_connections' = active_connections \ {ConnectionId}
    /\ returned' = Returned("close", TRUE, "not_called")
    /\ UNCHANGED <<stdout_queue, bridge_requests, bridge_answered>>
    /\ UNCHANGED <<conn_status, stdin_queue, channel, readers>>
    /\ UNCHANGED <<supVars, mainVars, adVars, inVars, codecVars, moreVars>>

\* send_message (bridge.py:115-152): False when the connection is not a key
\* of active_connections or its status is not "connected", True once the
\* line is put on the stdin queue and handed to send_stdin, whose return
\* value is not used.
bridge_send_message == ConnectionId \in active_connections /\ conn_status = "connected"

\* What send_message does to the queues (bridge.py:140-145).
PutLine(line) ==
    /\ IF bridge_send_message
       THEN /\ stdin_queue' = stdin_queue + 1
            /\ exec_conn' = SendStdin(exec_conn, line)
       ELSE UNCHANGED <<stdin_queue, exec_conn>>
    /\ returned' = Returned("send", bridge_send_message,
                            IF ~bridge_send_message THEN "not_called"
                            ELSE IF SendStdinReturns(exec_conn) THEN "accepted"
                            ELSE "refused")

\* send_request up to its first receive_message (bridge.py:298-320): a fresh
\* request id; None at once when send_message fails.
bridge_send_request ==
    /\ Len(bridge_requests) < MaxBridgeCalls
    /\ bridge_requests' = Append(bridge_requests,
            IF bridge_send_message THEN BridgeCall("receiving", 0, NoMessage)
                                   ELSE BridgeCall("done", 0, NoMessage))
    /\ PutLine("request")
    /\ UNCHANGED <<active_connections, stdout_queue, bridge_answered>>
    /\ UNCHANGED <<conn_status, channel, readers>>
    /\ UNCHANGED <<supVars, mainVars, adVars, inVars, codecVars, moreVars>>

\* send_message is called with a message that is no request of send_request
\* (a notification, a response), bridge.py:115-152.  The model follows the
\* stdin queue up to MaxBeyond entries beyond the capacity of the bounded
\* collections.
bridge_send(line) ==
    /\ bridge_send_message
    /\ stdin_queue < maxlen + MaxBeyond
    /\ PutLine(line)
    /\ UNCHANGED <<conn_status, channel, readers>>
    /\ UNCHANGED <<supVars, mainVars, adVars, brVars, inVars, codecVars, moreVars>>

\* send_stdin is called on the exec connection (exec_handler.py:140-166)
\* with `data`, at most MaxWrites times more than send_message was.
send_stdin(data) ==
    /\ exec_conn # NoExecConnection
    /\ exec_conn.stdin_buffer < stdin_queue + MaxWrites
    /\ exec_conn' = SendStdin(exec_conn, data)
    /\ UNCHANGED <<conn_status, stdin_queue, channel, readers, returned>>
    /\ UNCHANGED <<supVars, mainVars, adVars, brVars, inVars, codecVars, moreVars>>

\* The exec channel ends, closed by the peer or by an I/O error of the read:
\* the reader task reacts as HandleWebsocketEnd says; nothing else runs.
channel_ends(event) ==
    /\ exec_conn # NoExecConnection
    /\ channel = "open"
    /\ channel' = event
    /\ exec_conn' = HandleWebsocketEnd(exec_conn, event)
    /\ UNCHANGED <<conn_status, stdin_queue, readers, returned>>
    /\ UNCHANGED <<supVars, mainVars, adVars, brVars, inVars, codecVars, moreVars>>

\* close_stdio_connection (bridge.py:94-96) of an id that is no key of
\* active_connections: False, and nothing else.
close_unknown_connection ==
    /\ ConnectionId \notin active_connections
    /\ returned' = Returned("close", FALSE, "not_called")
    /\ UNCHANGED <<conn_status, stdin_queue, exec_conn, channel, readers>>
    /\ UNCHANGED <<supVars, mainVars, adVars, brVars, inVars, codecVars, moreVars>>

\* close_exec_connection (exec_handler.py:118-138) is called on the exec
\* connection of the bridge's connection by a holder of bridge.exec_handler;
\* the bridge's own connection entry is not touched.
exec_handler_close ==
    /\ exec_conn.status = "connected"
    /\ exec_conn' = close_exec_connection(exec_conn)
    /\ UNCHANGED <<conn_status, stdin_queue, channel, readers, returned>>
    /\ UNCHANGED <<supVars, mainVars, adVars, brVars, inVars, codecVars, moreVars>>

\* One turn of the loop of _read_stdout or _read_stderr of the k-th
\* connection created (bridge.py:226-240, 254-264): the task ends when the
\* connection id is no key of active_connections; else it reads, sleeps and
\* comes back.  The id holds the pod name and the second of the creation
\* (bridge.py:45): a connection created for the same pod within the same
\* second has the id of its predecessor.
reader_loop(k, stream) ==
    /\ k \in DOMAIN readers
    /\ readers[k][stream] = "running"
    /\ readers' = IF ConnectionId \in active_connections THEN readers
                  ELSE [readers EXCEPT ![k][stream] = "done"]
    /\ UNCHANGED <<conn_status, stdin_queue, exec_conn, channel, returned>>
    /\ UNCHANGED <<supVars, mainVars, adVars, brVars, inVars, codecVars, moreVars>>

\* The server writes the response to request i, once, while the call waits;
\* _read_stdout (bridge.py:223-249) puts the line on the stdout queue. The
\* server answers its requests in any order.
server_answers(i) ==
    /\ ConnectionId \in active_connections
    /\ i \in DOMAIN bridge_requests
    /\ bridge_requests[i].pc = "receiving"
    /\ i \notin bridge_answered
    /\ stdout_queue' = Append(stdout_queue, ResponseTo(i))
    /\ bridge_answered' = bridge_answered \cup {i}
    /\ UNCHANGED <<active_connections, bridge_requests>>
    /\ UNCHANGED <<supVars, mainVars, adVars, ioVars>>

\* response.get("id") == request_id (bridge.py:321).
MatchesRequest(response, request_id) == response # NoMessage /\ response[1] = request_id

\* One receive_message call of the loop of send_request returns a message
\* (bridge.py:319-322, 176-189): the call takes the head of the shared stdout
\* queue, returns it when its id is the request's and drops it otherwise.
receive_message_returns(i) ==
    /\ i \in DOMAIN bridge_requests
    /\ bridge_requests[i].pc = "receiving"
    /\ ConnectionId \in active_connections
    /\ stdout_queue # <<>>
    /\ stdout_queue' = Tail(stdout_queue)
    /\ bridge_requests' = [bridge_requests EXCEPT ![i] =
            IF MatchesRequest(Head(stdout_queue), i)
            THEN BridgeCall("done", @.elapsed, Head(stdout_queue))
            ELSE @]
    /\ UNCHANGED <<active_connections, bridge_answered>>
    /\ UNCHANGED <<supVars, mainVars, adVars, ioVars>>

\* One second passes for call i without a message: receive_message returns
\* None (its one-second wait on the empty queue expires, bridge.py:191-193,
\* or the connection is gone, bridge.py:166-168); when the time since
\* start_time reaches the timeout the loop ends and send_request returns None
\* (bridge.py:319, 324-325).
receive_message_timeout(i) ==
    /\ i \in DOMAIN bridge_requests
    /\ bridge_requests[i].pc = "receiving"
    /\ (stdout_queue = <<>> \/ ConnectionId \notin active_connections)
    /\ bridge_requests' = [bridge_requests EXCEPT ![i] =
            IF @.elapsed + 1 < bridge_timeout
            THEN BridgeCall("receiving", @.elapsed + 1, NoMessage)
            ELSE BridgeCall("done", @.elapsed + 1, NoMessage)]
    /\ UNCHANGED <<active_connections, stdout_queue, bridge_answered>>
    /\ UNCHANGED <<supVars, mainVars, adVars, ioVars>>

(***************************************************************************)
(* Specifications.                                                         *)
(***************************************************************************)
\* The supervisor as constructed (manager.py:26-57).
SupConstructed ==
    /\ running_servers = <<>>
    /\ sidecar_status = "stopped"
    /\ sidecar_start_time = NoTime
    /\ sup_calls = EmptyBag
    /\ sup_ops = 0
    /\ sup_resp = NoResp
    /\ clock = 0
    /\ pods = {}
    /\ returned_ever = {}
    /\ reissued = {}
    /\ overwritten = {}
    /\ stop_called = {}

\* The main service as constructed (MCPServerManager.__init__ mcp_api.py:
\* 659-667; no backend object exists yet), in environment e with the
\* archon-mcp container in state cs.
MainConstructed(e, cs) ==
    /\ env = e
    /\ wall = WallStart
    /\ container_state = cs
    /\ _initialized = FALSE
    /\ manager = None
    /\ _manager_type = "unknown"
    /\ _initialization_lock = FALSE
    /\ status = None
    /\ _last_operation_time = 0
    /\ _docker_initialized = FALSE
    /\ docker_client = FALSE
    /\ container = FALSE
    /\ api_calls = EmptyBag
    /\ api_issued = 0
    /\ api_entered = 0
    /\ api_done = {}
    /\ probes = 0
    /\ probe_results = {}

\* The adapter as constructed (ProtocolAdapter.__init__ adapters.py:124-129).
AdConstructed ==
    /\ is_connected = FALSE
    /\ pending_requests = {}
    /\ futures = <<>>
    /\ requests = <<>>
    /\ incoming = {}
    /\ answered = {}

\* The incoming side as constructed (ProtocolAdapter.__init__ adapters.py:
\* 124-129): no handler, an empty message_queue; nothing has arrived.
IoConstructed ==
    /\ message_handlers = {}
    /\ message_queue = <<>>
    /\ handling = NoMsg
    /\ wire = <<>>
    /\ outbox = <<>>
    /\ arrived = <<>>
    /\ delivered = <<>>
    /\ bridges = <<>>
    /\ forwarded = <<>>
    /\ roundtrip = NoTrip
    /\ conn_status = None
    /\ stdin_queue = 0
    /\ exec_conn = NoExecConnection
    /\ channel = "open"
    /\ readers = <<>>
    /\ returned = NothingReturned

\* The manager as constructed (kubernetes_mcp_manager.py:30-31): no log
\* WebSocket, and no broadcast task yet.
WsConstructed ==
    /\ log_websockets = <<>>
    /\ ws_closed = {}
    /\ broadcast_tasks = <<>>

\* No ServerConfig has been passed to the manifest builder yet.
PodConstructed ==
    /\ server_config = NoPodConfig
    /\ built = <<>>

\* The bridge as constructed (MCPStdioBridge.__init__ bridge.py:23-30): no
\* connection yet.
BrConstructed ==
    /\ active_connections = {}
    /\ stdout_queue = <<>>
    /\ bridge_requests = <<>>
    /\ bridge_answered = {}

\* An environment without sidecar, Kubernetes or Docker.
BareEnv == [health |-> "unreachable", deployment_mode |-> "", docker |-> FALSE]

InitSup ==
    /\ SupConstructed
    /\ MainConstructed(BareEnv, "not_found")
    /\ AdConstructed
    /\ BrConstructed
    /\ IoConstructed
    /\ WsConstructed
    /\ PodConstructed

\* An id no start of the model generates, for stopping an unknown server.
UnknownId == <<"uv", "default", 0>>

NextSup ==
    \/ \E cfg \in Configs, now \in 0..MaxTime : start_server(cfg, now)
    \/ \E c \in BagToSet(sup_calls), cluster \in Clusters, accepted \in BOOLEAN,
          now \in 0..MaxTime : start_server_resume(c, cluster, accepted, now)
    \/ \E sid \in ReturnedIds \cup {UnknownId} : stop_server(sid)
    \/ \E c \in BagToSet(sup_calls), cluster \in Clusters, accepted \in BOOLEAN :
          stop_server_resume(c, cluster, accepted)
    \/ stop_server_all
    \/ \E c \in BagToSet(sup_calls), cluster \in Clusters, accepted \in BOOLEAN :
          stop_server_all_resume(c, cluster, accepted)
    \/ get_status
    \/ \E c \in BagToSet(sup_calls), cluster \in Clusters :
          \E listing \in Listings(cluster) \cup {<<>>} : get_status_resume(c, cluster, listing)

SpecSup == InitSup /\ [][NextSup]_vars

\* The supervisor with its reconciliation: servers are started and stopped,
\* and status and health calls observe their pods in every state of the
\* table.
RecConfigs == { Config("archon", None, None, None, "sse"),
                Config("npx", "default", "pkg", None, "sse") }

InitRec ==
    /\ SupConstructed
    /\ MainConstructed(BareEnv, "not_found")
    /\ AdConstructed
    /\ BrConstructed
    /\ IoConstructed
    /\ WsConstructed
    /\ PodConstructed

\* Reconciliation and the health check never read the clock: every start
\* reads the same second.
NextRec ==
    \/ \E cfg \in RecConfigs : start_server(cfg, 0)
    \/ \E c \in BagToSet(sup_calls), cluster \in Clusters, accepted \in BOOLEAN :
          start_server_resume(c, cluster, accepted, 0)
    \/ \E sid \in ReturnedIds : stop_server(sid)
    \/ \E c \in BagToSet(sup_calls), cluster \in Clusters, accepted \in BOOLEAN :
          stop_server_resume(c, cluster, accepted)
    \/ get_status
    \/ \E c \in BagToSet(sup_calls), cluster \in Clusters :
          \E listing \in AllListings(cluster) \cup {<<>>} :
              get_status_resume(c, cluster, listing)
    \/ sidecar_health_check
    \/ \E c \in BagToSet(sup_calls), reachable \in BOOLEAN :
          sidecar_health_check_resume(c, reachable)
    \/ \E c \in BagToSet(sup_calls), cluster \in Clusters :
          \E listing \in AllListings(cluster) \cup {<<>>} :
              sidecar_health_check_refresh(c, cluster, listing)
    \/ process_restart

SpecRec == InitRec /\ [][NextRec]_vars

\* The main service in any environment; without a reachable Docker daemon
\* there is no container.
InitMain ==
    /\ SupConstructed
    /\ AdConstructed
    /\ BrConstructed
    /\ IoConstructed
    /\ WsConstructed
    /\ PodConstructed
    /\ \E e \in Envs, cs \in ContainerStates :
          /\ (e.docker \/ cs = "not_found")
          /\ MainConstructed(e, cs)

Times == WallStart..WallEnd

NextMain ==
    \/ \E op \in {"start", "stop"} : route_control(op)
    \/ \E ok \in BOOLEAN : route_status(ok)
    \/ \E c \in BagToSet(api_calls) : ensure_initialized(c)
    \/ \E c \in BagToSet(api_calls) : is_available_returns(c)
    \/ \E c \in BagToSet(api_calls) : lock_acquired(c)
    \/ \E c \in BagToSet(api_calls), t \in Times, ok \in BOOLEAN : mgr_start_server(c, t, ok)
    \/ \E c \in BagToSet(api_calls), t \in Times, ok \in BOOLEAN : mgr_stop_server(c, t, ok)

SpecMain == InitMain /\ [][NextMain]_vars

InitAd ==
    /\ SupConstructed
    /\ MainConstructed(BareEnv, "not_found")
    /\ AdConstructed
    /\ BrConstructed
    /\ IoConstructed
    /\ WsConstructed
    /\ PodConstructed

RequestIds == 1..MaxCalls

NextAd ==
    \/ connect
    \/ disconnect
    \/ stream_fails
    \/ send_request
    \/ \E i \in RequestIds, success \in BOOLEAN : send_message_returns(i, success)
    \/ \E i \in RequestIds, error \in BOOLEAN : peer_responds(i, error)
    \/ \E message \in incoming : handle_response(message)
    \/ \E i \in RequestIds : wait_for_timeout(i)
    \/ \E i \in RequestIds : cancel(i)

SpecAd == InitAd /\ [][NextAd]_vars

\* A call in progress moves on: send_message returns (the transports bound
\* their sends) or the timer of wait_for expires (the timeout is a finite
\* number of seconds).
Progress ==
    \E i \in RequestIds :
        \/ \E success \in BOOLEAN : send_message_returns(i, success)
        \/ wait_for_timeout(i)

FairAd == WF_vars(Progress)

SpecAdFair == InitAd /\ [][NextAd]_vars /\ FairAd

\* The incoming side of one adapter: frames arrive, the reading loop parses
\* and dispatches them, the handlers return or raise, and the adapter is
\* connected and disconnected meanwhile.
InitIo ==
    /\ SupConstructed
    /\ MainConstructed(BareEnv, "not_found")
    /\ AdConstructed
    /\ BrConstructed
    /\ IoConstructed
    /\ WsConstructed
    /\ PodConstructed

\* The methods of the model: "ping" gets a handler registered, "nope" never.
Methods == {"ping"}

\* The frames the peer writes: text that is no JSON, a JSON array, two
\* requests, a request for a method without handler, a notification, a
\* response to no pending request, a request object without the "jsonrpc"
\* key, and a request for the method "*".
Frames ==
    { Frame("invalid", JsonObject(Absent, Absent, Absent, Absent, Absent, Absent)),
      Frame("value", JsonObject(Absent, Absent, Absent, Absent, Absent, Absent)),
      Frame("object", JsonObject("2.0", "1", "ping", "{k}", Absent, Absent)),
      Frame("object", JsonObject("2.0", "2", "ping", Absent, Absent, Absent)),
      Frame("object", JsonObject("2.0", "3", "nope", Absent, Absent, Absent)),
      Frame("object", JsonObject("2.0", Absent, "ping", Absent, Absent, Absent)),
      Frame("object", JsonObject("2.0", "7", Absent, Absent, "ok", Absent)),
      Frame("object", JsonObject(Absent, "4", "ping", Absent, Absent, Absent)),
      Frame("object", JsonObject("2.0", "5", "*", "{k}", Absent, Absent)) }

\* The target adapters of the bridge.
Targets == <<"B1", "B2">>

\* What a handler returns.
HandlerResults == {"ok", None}

NextIo ==
    \/ connect
    \/ disconnect
    \/ \E method \in Methods : register_handler(method)
    \/ \E frame \in Frames : frame_arrives(frame)
    \/ \E posted \in BOOLEAN : process_message(posted)
    \/ \E result \in HandlerResults, posted \in BOOLEAN : handler_returns(result, posted)
    \/ \E posted \in BOOLEAN : handler_raises(posted)
    \/ create_bridge(Targets)
    \/ \E posted \in BOOLEAN : forward_handler_called(posted)

SpecIo == InitIo /\ [][NextIo]_vars

\* The conversions of one message of each kind, with and without params.
InitCodec ==
    /\ SupConstructed
    /\ MainConstructed(BareEnv, "not_found")
    /\ AdConstructed
    /\ BrConstructed
    /\ IoConstructed
    /\ WsConstructed
    /\ PodConstructed

MessageIds == {"1", "2", "3"}
MethodNames == {"ping", "tools/list"}
ParamValues == {None, "{}", "{k}"}

\* Requests and notifications as send_request and send_notification build
\* them (adapters.py:158-163, 188-193), responses as _handle_request builds
\* them (adapters.py:216-232), and messages of type ERROR with an error.
Messages ==
    { MCPMessage(id, "request", method, params, None, None) :
          id \in MessageIds, method \in MethodNames, params \in ParamValues }
    \cup { MCPMessage("", "notification", method, params, None, None) :
               method \in MethodNames, params \in ParamValues }
    \cup { MCPMessage(id, "response", None, None, result, None) :
               id \in MessageIds, result \in {None, "ok"} }
    \cup { MCPMessage(id, "response", None, None, None, "{code}") : id \in MessageIds }
    \cup { MCPMessage(id, "error", None, None, None, "{code}") : id \in MessageIds }

NextCodec ==
    \/ \E m \in Messages : make_message(m)
    \/ encode_message
    \/ decode_message

SpecCodec == InitCodec /\ [][NextCodec]_vars


InitBr ==
    /\ SupConstructed
    /\ MainConstructed(BareEnv, "not_found")
    /\ AdConstructed
    /\ BrConstructed
    /\ IoConstructed
    /\ WsConstructed
    /\ PodConstructed

BridgeIds == 1..MaxBridgeCalls

NextBr ==
    \/ create_stdio_connection
    \/ close_stdio_connection
    \/ bridge_send_request
    \/ \E i \in BridgeIds : server_answers(i)
    \/ \E i \in BridgeIds : receive_message_returns(i)
    \/ \E i \in BridgeIds : receive_message_timeout(i)

SpecBr == InitBr /\ [][NextBr]_vars

\* One stdio connection with its exec connection: messages are sent, data
\* is written to stdin, and the exec channel ends.
InitStdio ==
    /\ SupConstructed
    /\ MainConstructed(BareEnv, "not_found")
    /\ AdConstructed
    /\ BrConstructed
    /\ IoConstructed
    /\ WsConstructed
    /\ PodConstructed

\* What is written to stdin: a line, or nothing.
StdinData == {"line", ""}

NextStdio ==
    \/ create_stdio_connection
    \/ close_stdio_connection
    \/ bridge_send("line")
    \/ \E data \in StdinData : send_stdin(data)
    \/ \E event \in {"closed", "io_error"} : channel_ends(event)

SpecStdio == InitStdio /\ [][NextStdio]_vars

\* The life of the connections of one pod created within one second: create,
\* send, close, close again, the exec connection closed from outside the
\* bridge, and the reader tasks.
InitConn ==
    /\ SupConstructed
    /\ MainConstructed(BareEnv, "not_found")
    /\ AdConstructed
    /\ BrConstructed
    /\ IoConstructed
    /\ WsConstructed
    /\ PodConstructed

Streams == {"stdout", "stderr"}

NextConn ==
    \/ create_stdio_connection
    \/ close_stdio_connection
    \/ close_unknown_connection
    \/ stdin_queue < MaxSends /\ bridge_send("line")
    \/ exec_handler_close
    \/ \E k \in 1..MaxConnects, stream \in Streams : reader_loop(k, stream)

SpecConn == InitConn /\ [][NextConn]_vars

\* A running reader task is scheduled again and again (asyncio runs every
\* ready task).
FairConn == \A k \in 1..MaxConnects, stream \in Streams : WF_vars(reader_loop(k, stream))

SpecConnFair == SpecConn /\ FairConn

\* The manifest builder: one ServerConfig of every server type and
\* transport, with and without a package and configured arguments, and the
\* create_pod_manifest calls made on it.
PodConfigs ==
    { PodConfig(type, transport, package, args) :
          type \in {"archon", "npx", "uv", "python", "docker"},
          transport \in {"stdio", "sse", "http", "websocket"},
          package \in {None, "pkg"},
          args \in {<<>>, <<"--verbose">>} }

InitPod ==
    /\ SupConstructed
    /\ MainConstructed(BareEnv, "not_found")
    /\ AdConstructed
    /\ BrConstructed
    /\ IoConstructed
    /\ WsConstructed
    /\ server_config \in PodConfigs
    /\ built = <<>>

NextPod == create_pod_manifest

SpecPod == InitPod /\ [][NextPod]_vars

\* The log stream: WebSockets are added, their clients go away, log entries
\* are added and their broadcast tasks run interleaved.
InitWs ==
    /\ SupConstructed
    /\ MainConstructed(BareEnv, "not_found")
    /\ AdConstructed
    /\ BrConstructed
    /\ IoConstructed
    /\ WsConstructed
    /\ PodConstructed

NextWs ==
    \/ kubernetes_add_log
    \/ \E k \in 1..MaxLogs : broadcast_log(k)
    \/ \E k \in 1..MaxLogs : send_json_returns(k)
    \/ \E websocket \in WebSockets : add_websocket(websocket)
    \/ \E websocket \in WebSockets : client_disconnects(websocket)
    \/ \E websocket \in WebSockets : remove_websocket(websocket)

SpecWs == InitWs /\ [][NextWs]_vars

(***************************************************************************)
(* Claims about the supervisor (checked under SpecSup).                    *)
(***************************************************************************)

\* C1: under any interleaving of start_server, stop_server and get_status
\* calls, the number of entries in running_servers never exceeds
\* max_concurrent_servers.
C1_RunningServersWithinLimit ==
    Len(running_servers) <= max_concurrent_servers

\* C2: no two distinct tracked instances whose status is Running have the
\* same (server_type, name) pair, named or unnamed.
C2_NoTwoRunningShareTypeAndName ==
    \A i, j \in DOMAIN running_servers :
        ( /\ i # j
          /\ running_servers[i].status = "Running"
          /\ running_servers[j].status = "Running" )
        => ~ ( /\ running_servers[i].server_type = running_servers[j].server_type
               /\ running_servers[i].name = running_servers[j].name )

\* C4: every server_id returned by a successful start differs from every
\* server_id returned by an earlier successful start, and a successful start
\* never overwrites an existing running_servers entry.
C4_ServerIdsUnique ==
    /\ reissued = {}
    /\ overwritten = {}

\* C5: for every server_id returned by a successful start, every later
\* status() lists an instance with that server_id until the instance reaches a
\* terminal status, unless stop(server_id) has been called for it.  The
\* instance is taken to be alive (not terminal) while its pod exists.
C5_StartedServersStayListed ==
    sup_resp.op = "status" =>
        \A r \in returned_ever :
            (r.server_id \notin stop_called /\ r.pod_name \in pods)
            => r.server_id \in sup_resp.servers

\* The tracked instances with the type and name of cfg.
SameTypeAndName(cfg) ==
    { running_servers[i].server_id : i \in { j \in DOMAIN running_servers :
          /\ running_servers[j].server_type = cfg.server_type
          /\ running_servers[j].name = cfg.name } }

\* C14: a start whose (server_type, name) is that of an instance already
\* tracked (here for a named config) returns success=false with status
\* "running" and the server_id of the existing instance, issues no create to
\* the backend and leaves running_servers unchanged, however many servers
\* are tracked, the concurrency cap being reached included.
C14_DuplicateStartReturnsExisting ==
    [][\A cfg \in Configs, now \in 0..MaxTime :
          (start_server(cfg, now) /\ cfg.name # None /\ SameTypeAndName(cfg) # {})
          => /\ sup_resp'.success = FALSE
             /\ sup_resp'.status = "running"
             /\ sup_resp'.server_id \in SameTypeAndName(cfg)
             /\ sup_calls' = sup_calls
             /\ running_servers' = running_servers]_vars

\* The configurations the validation has to reject: an unknown server type
\* or transport, npx or uv without a package, docker without a command.
Invalid(cfg) ==
    \/ cfg.server_type \notin {"archon", "npx", "uv", "python", "docker"}
    \/ cfg.transport \notin {"stdio", "sse", "http", "websocket"}
    \/ (cfg.server_type \in {"npx", "uv"} /\ cfg.package = None)
    \/ (cfg.server_type = "docker" /\ cfg.command = None)

Range(seq) == { seq[i] : i \in DOMAIN seq }

\* C17: when stop() without an id finishes after the backend accepted the
\* delete of some tracked instances and failed the delete of others, it
\* answers status "partial" with success, counts exactly the accepted deletes
\* as stopped, carries exactly one error string per failed instance, and no
\* instance whose delete was accepted is tracked any more.
C17_StopAllReportsPartial ==
    [][\A c \in BagToSet(sup_calls), cluster \in Clusters, accepted \in BOOLEAN :
          (stop_server_all_resume(c, cluster, accepted) /\ Tail(c.todo) = <<>>)
          => LET last    == Head(c.todo).server_id
                 deleted == IF accepted THEN c.deleted \cup {last} ELSE c.deleted
                 failed  == IF accepted THEN c.failed ELSE c.failed \cup {last}
             IN  (deleted # {} /\ failed # {})
                 => /\ sup_resp'.op = "stop_all"
                    /\ sup_resp'.status = "partial"
                    /\ sup_resp'.success
                    /\ sup_resp'.message.stopped = Cardinality(deleted)
                    /\ Len(sup_resp'.message.errors) = Cardinality(failed)
                    /\ Range(sup_resp'.message.errors) = failed
                    /\ deleted \cap { running_servers'[i].server_id :
                                        i \in DOMAIN running_servers' } = {}]_vars

\* A stop of all servers has answered "partial" with one server stopped and
\* one error.
C17_Witness ==
    /\ sup_resp.op = "stop_all" /\ sup_resp.status = "partial"
    /\ sup_resp.message.stopped = 1
    /\ Len(sup_resp.message.errors) = 1

(***************************************************************************)
(* Claims about the main service (checked under SpecMain).                 *)
(***************************************************************************)

\* The start/stop calls that entered the Docker backend and returned.
DockerDone == { r \in api_done : r.op \in {"start", "stop"} /\ r.at # NoTime }

\* C3: for any two start/stop calls on the same supervisor that both
\* complete, either at least 2 s elapsed between them or the later call
\* returned a throttled response.  Stated for the Docker backend, with the
\* time of a call taken where the backend reads it for its throttle check,
\* and only for pairs whose earlier call was not itself turned away by the
\* throttle.
C3_ThrottleBetweenCompletedCalls ==
    \A a, b \in DockerDone :
        ( /\ a.seq < b.seq
          /\ ~a.throttled
          /\ b.at - a.at < _min_operation_interval )
        => b.throttled

\* The number of callers in `calls` that have not yet returned from
\* _ensure_initialized.
InEnsure(calls) ==
    BagCardinality([c \in {x \in BagToSet(calls) : x.pc \in {"enter", "lock_wait", "probing"}}
                       |-> calls[c]])

\* C6: backend resolution is single-flight and set-once: the availability
\* probe runs at most once whatever the number of concurrent callers, a
\* caller returns from _ensure_initialized only with the binding set, and
\* once _initialized is true the manager and _manager_type never change.
C6_SingleFlightSetOnce ==
    /\ [](probes <= 1)
    /\ [][ InEnsure(api_calls') < InEnsure(api_calls) =>
              (_initialized' /\ manager' # None) ]_vars
    /\ [][ _initialized =>
              (_initialized' /\ manager' = manager /\ _manager_type' = _manager_type) ]_vars

\* C6 witness: with the binding set by a single probe, one caller has
\* returned and another, which found the lock taken, still waits for it.
C6_Witness ==
    /\ _initialized /\ probes = 1
    /\ \E c \in BagToSet(api_calls) : c.pc = "lock_wait"
    /\ \E c \in BagToSet(api_calls) : c.pc = "ready"

\* The mode the resolution order of the specification yields, the sidecar
\* being available when the client's is_available() says so.
ResolvedMode ==
    IF is_available(HealthAnswer(env.health)) THEN "sidecar"
    ELSE IF env.deployment_mode = "kubernetes" THEN "kubernetes"
    ELSE IF env.docker THEN "docker"
    ELSE "unavailable"

\* C7: resolution follows the order sidecar, DEPLOYMENT_MODE=kubernetes,
\* reachable Docker daemon, and otherwise binds mode "unavailable", in which
\* every control operation (start, stop, status) answered after the
\* resolution returns the unavailability error.  (The sidecar's own healthy
\* answer is the subject of C8 and is left aside here.)
C7_ResolutionOrderEndsUnavailable ==
    (_initialized /\ env.health # "healthy") =>
        /\ _manager_type = ResolvedMode
        /\ ResolvedMode = "unavailable" =>
              \A r \in api_done : r.status # "initializing" => r.status = "unavailable"

\* C8: when GET /health of the sidecar answers its success response,
\* is_available() returns true and the dispatcher binds the sidecar backend.
C8_HealthySidecarIsBound ==
    (env.health = "healthy" /\ probe_results # {}) =>
        /\ probe_results = {TRUE}
        /\ _manager_type = "sidecar"

(***************************************************************************)
(* Claims about the protocol adapter (checked under SpecAd, SpecAdFair).   *)
(***************************************************************************)

\* The send_request calls that have ended.
Ended == { i \in DOMAIN requests : requests[i].pc = "done" }

C10_ResultComesFromOwnResponse ==
    \A i \in Ended :
        requests[i].outcome \in {"result", "rpc_error"} => requests[i].got = i

\* C10 witness: of two concurrent calls the later one has received its
\* response first, while the earlier one still waits.
C10_Witness ==
    \E i, j \in DOMAIN requests :
        /\ i < j
        /\ requests[i].pc = "waiting"
        /\ requests[j].pc = "done" /\ requests[j].outcome = "result" /\ requests[j].got = j

\* C12: pending_requests holds only ids of send_request calls still in
\* progress: once a call has ended (by completion, timeout, send failure or
\* cancellation of the calling task) its request id is no key of
\* pending_requests.
C12_EndedCallsNotPending ==
    /\ pending_requests \subseteq DOMAIN requests
    /\ \A i \in DOMAIN requests : requests[i].pc = "done" => i \notin pending_requests

\* C13: once the session of an adapter is closed or its stream has failed,
\* no call is left waiting for its response on it: every such call has been
\* failed (stream closed) instead of waiting for its timeout, and closing
\* issues no call to the supervisor that would stop or delete the worker.
C13_CloseFailsPendingRequests ==
    ~is_connected =>
        /\ \A i \in DOMAIN requests : requests[i].pc # "waiting"
        /\ sup_ops = 0 /\ sup_calls = EmptyBag

(***************************************************************************)
(* Claims about the stdio bridge (checked under SpecBr).                   *)
(***************************************************************************)
\* C11: concurrent send_request calls on one open stdio bridge connection,
\* to a server that answers every one of them while it waits (in any order),
\* each return the response that carries their own request id: no call
\* returns without its response, and none returns another call's.
C11_EachCallGetsOwnResponse ==
    \A i \in DOMAIN bridge_requests :
        /\ (bridge_requests[i].pc = "done" /\ bridge_requests[i].response # NoMessage)
              => bridge_requests[i].response = ResponseTo(i)
        /\ (bridge_requests[i].pc = "done" /\ ConnectionId \in active_connections
              /\ \A j \in DOMAIN bridge_requests : j \in bridge_answered)
              => bridge_requests[i].response = ResponseTo(i)

(***************************************************************************)
(* Claims about reconciliation and health (checked under SpecRec).         *)
(***************************************************************************)
\* The status the reconciliation table gives an observed pod.
TableStatus(pod) ==
    CASE pod.phase = "Pending" /\ pod.waiting # None -> "Pending (" \o pod.waiting \o ")"
      [] pod.phase = "Pending" /\ pod.waiting = None -> "Pending"
      [] pod.phase = "Running" /\ pod.ready          -> "Running"
      [] pod.phase = "Running" /\ ~pod.ready         -> "Starting"
      [] pod.phase = "Succeeded"                     -> "Stopped"
      [] pod.phase = "Failed"                        -> "Failed"

\* C18: a reconcile cycle gives every tracked instance the status of the
\* table for its observed pod (Pending with its waiting reason, Running when
\* Ready, Starting when running and not Ready, Stopped for Succeeded, Failed,
\* not_found for an absent pod), and ready is true exactly when the status
\* is Running.
C18_ReconcileFollowsTable ==
    [][\A c \in BagToSet(sup_calls), cluster \in Clusters :
          \A listing \in AllListings(cluster) \cup {<<>>} :
             get_status_resume(c, cluster, listing)
             => \A i \in DOMAIN running_servers' :
                   LET e == running_servers'[i] IN
                   /\ e.status = IF e.pod_name \in DOMAIN listing
                                 THEN TableStatus(listing[e.pod_name])
                                 ELSE "not_found"
                   /\ e.ready = (e.status = "Running")]_vars

\* C19: a tracked instance whose pod is absent in a reconcile cycle and was
\* absent in the cycle before (its status is not_found from that cycle) is
\* removed from running_servers by the cycle; an instance whose pod is absent
\* for the first time is kept.
C19_TwiceNotFoundIsCollected ==
    [][\A c \in BagToSet(sup_calls), cluster \in Clusters :
          \A listing \in AllListings(cluster) \cup {<<>>} :
             get_status_resume(c, cluster, listing)
             => \A i \in DOMAIN running_servers :
                   LET e       == running_servers[i]
                       absent  == e.pod_name \notin DOMAIN listing
                       tracked == { running_servers'[j].server_id :
                                        j \in DOMAIN running_servers' }
                   IN  /\ (absent /\ e.status = "not_found") => e.server_id \notin tracked
                       /\ (absent /\ e.status # "not_found") => e.server_id \in tracked]_vars

\* What health() has to answer for a backend that is reachable or not, the
\* number of instances tracked when the check counts them, and the tracked
\* instances as reconciled.
ShouldBeHealthy(reachable, tracked, servers) ==
    reachable /\ (tracked = 0 \/ \E i \in DOMAIN servers : servers[i].ready)

C21_RestartRehydratesTracking ==
    [][\A c \in BagToSet(sup_calls), cluster \in Clusters :
          \A listing \in AllListings(cluster) :
             (get_status_resume(c, cluster, listing) /\ running_servers = <<>>)
             => \A pod \in cluster :
                   \E i \in DOMAIN running_servers' : running_servers'[i].pod_name = pod]_vars

(***************************************************************************)
(* Claims about late responses (checked under SpecAd).                     *)
(***************************************************************************)
\* C23: an incoming response whose id is not in pending_requests, such as
\* the late response to a request that timed out, completes no request,
\* changes no entry of pending_requests and sends no message; the requests
\* pending then and those made later are as they would be without it.
C23_UnknownResponseIsDropped ==
    [][\A message \in incoming :
          (handle_response(message) /\ message.id \notin pending_requests)
          => UNCHANGED <<pending_requests, futures, requests, outbox, is_connected>>]_vars

\* The response to a request that had timed out was handled while another
\* request was pending.
C23_Witness ==
    \E i \in DOMAIN requests :
        /\ requests[i].outcome = "timeout"
        /\ \E k \in DOMAIN message_queue : message_queue[k].id = i
        /\ pending_requests # {}

(***************************************************************************)
(* Claims about the incoming side of the adapter (checked under SpecIo).   *)
(***************************************************************************)
\* The JSON-RPC responses to the request with id `id`.
ReplyResult(id, result) == JsonObject("2.0", id, Absent, Absent, result, Absent)
ReplyError(id, error) == JsonObject("2.0", id, Absent, Absent, Absent, error)

\* A response was sent: send_message was called with it and returned True.
SentNow(data) == outbox' = Append(outbox, [data |-> data, success |-> TRUE])

\* C22: every incoming request on a connected adapter gets exactly one
\* response with its id sent: the handler's return value as result when the
\* registered handler returns, error -32603 when it raises, error -32601
\* when no handler is registered for the method; nothing else sends.
C22_EachRequestAnsweredOnce ==
    [][/\ \A posted \in BOOLEAN :
             (/\ process_message(posted)
              /\ Parses(Head(wire))
              /\ from_jsonrpc(Head(wire).data).type = "request"
              /\ from_jsonrpc(Head(wire).data).method \notin message_handlers)
             => SentNow(ReplyError(from_jsonrpc(Head(wire).data).id, MethodNotFound))
       /\ \A result \in HandlerResults, posted \in BOOLEAN :
             (handler_returns(result, posted) /\ handling.type = "request" /\ is_connected)
             => SentNow(ReplyResult(handling.id, result))
       /\ \A posted \in BOOLEAN :
             (handler_raises(posted) /\ handling.type = "request" /\ is_connected)
             => SentNow(ReplyError(handling.id, InternalError))
       /\ outbox' # outbox
             => \/ handling # NoMsg /\ handling.type = "request"
                \/ /\ wire # <<>> /\ Parses(Head(wire))
                   /\ from_jsonrpc(Head(wire).data).type = "request"]_vars

\* The message was forwarded: send_message was called with it on every
\* target of the bridge, in their order.
ForwardedNow(message) ==
    forwarded' = forwarded \o [i \in 1..Len(bridges) |-> Forward(bridges[i], message)]

\* C24: with a bridge created from the adapter to its targets, every message
\* received on the adapter is forwarded by a send_message call on each
\* target, at the latest when its handler is called.
C24_BridgeForwardsEveryMessage ==
    [][/\ \A posted \in BOOLEAN :
             (process_message(posted) /\ bridges # <<>> /\ Parses(Head(wire)))
             => \/ ForwardedNow(from_jsonrpc(Head(wire).data))
                \/ handling' = from_jsonrpc(Head(wire).data)
       /\ \A posted \in BOOLEAN :
             forward_handler_called(posted) => ForwardedNow(handling)
       /\ \A result \in HandlerResults, posted \in BOOLEAN :
             (handler_returns(result, posted) /\ bridges # <<>>) => ForwardedNow(handling)
       /\ \A posted \in BOOLEAN :
             (handler_raises(posted) /\ bridges # <<>>) => ForwardedNow(handling)]_vars

\* The messages of the frames that parse, in the order of the frames.
ParsedMessages(frames) ==
    LET good == SelectSeq(frames, Parses)
    IN  [i \in 1..Len(good) |-> from_jsonrpc(good[i].data)]

\* The frames the reading loop has taken so far.
FramesRead == SubSeq(arrived, 1, Len(arrived) - Len(wire))

\* C27: the messages handed to handle_incoming_message are, in this order,
\* the messages of the frames read so far that parse: a frame that arrived
\* before another one is handled before it.
C27_HandledInArrivalOrder == delivered = ParsedMessages(FramesRead)

\* Two different messages were handled, one after the other.
C27_Witness == Len(delivered) >= 2 /\ delivered[1] # delivered[2]

\* A JSON-RPC 2.0 object: the version, and either a method without result
\* and error, or an id with exactly one of result and error and no method.
WellFormed(frame) ==
    /\ frame.json = "object"
    /\ frame.data.jsonrpc = "2.0"
    /\ \/ /\ frame.data.method # Absent
          /\ frame.data.result = Absent /\ frame.data.error = Absent
       \/ /\ frame.data.method = Absent /\ frame.data.id # Absent
          /\ (frame.data.result = Absent) # (frame.data.error = Absent)

\* C28: a frame that is no JSON or violates the JSON-RPC shape is dropped:
\* it reaches no handler, nothing is sent for it, and the adapter stays
\* connected.
C28_MalformedFrameIsDropped ==
    [][\A posted \in BOOLEAN :
          (process_message(posted) /\ ~WellFormed(Head(wire)))
          => UNCHANGED <<delivered, message_queue, handling, outbox, is_connected>>]_vars

(***************************************************************************)
(* Claims about the JSON-RPC conversions (checked under SpecCodec).        *)
(***************************************************************************)
\* C25: for every message, from_jsonrpc(to_jsonrpc(m)) equals m in id, type,
\* method, params, result and error.
C25_JsonRpcRoundTrip ==
    roundtrip.pc = "decoded" => roundtrip.back = roundtrip.made

(***************************************************************************)
(* Claims about the stdio connection and its exec connection (checked      *)
(* under SpecStdio).                                                       *)
(***************************************************************************)
\* C26: the adapter's message_queue and the stdin and stdout queues of the
\* stdio connection each hold at most 1000 entries, whatever was sent and
\* received.
C26_CollectionsHoldAtMost1000 ==
    /\ Len(message_queue) <= maxlen
    /\ stdin_queue <= maxlen
    /\ Len(stdout_queue) <= maxlen

\* C29: send_stdin with empty data leaves the stdin buffer and the rest of
\* the connection as they were.
C29_EmptyWriteIsNoOp ==
    [][\A data \in StdinData :
          (send_stdin(data) /\ data = "") => UNCHANGED <<exec_conn, conn_status, stdin_queue>>]_vars

\* C30: when the exec channel closes or its read fails, the exec connection
\* is marked "error" and the stdio connection bound to it no longer reports
\* the status "connected".
C30_ChannelEndMarksErrorAndNotifies ==
    [][\A event \in {"closed", "io_error"} :
          channel_ends(event)
          => /\ exec_conn'.status = "error"
             /\ ConnectionId \in active_connections' => conn_status' # "connected"]_vars

(***************************************************************************)
(* Claims about the HTTP routes of the sidecar (checked under SpecSup).    *)
(***************************************************************************)
\* C31: the sidecar answers 200 when the call succeeded, 400 when the start
\* configuration is invalid, 404 when /servers/stop names a server id that
\* is not tracked, 503 when the backend failed the request, and 500 for
\* nothing but internal errors.
C31_StatusCodePerOutcome ==
    sup_resp.op \in {"start", "stop", "stop_all", "status"} =>
        LET code == sidecar_route(sup_resp) IN
        /\ sup_resp.success => code = 200
        /\ sup_resp.message.kind = "invalid_config" => code = 400
        /\ sup_resp.status = "not_found" => code = 404
        /\ (sup_resp.op \in {"start", "stop"} /\ sup_resp.message.kind = "failed")
               => code = 503
        /\ code = 500 => ~sup_resp.success /\ sup_resp.message.kind \notin
                             {"invalid_config", "not_found", "limit_reached",
                              "already_running"}

(***************************************************************************)
(* Claims about the manifest builder (checked under SpecPod).              *)
(***************************************************************************)
\* C32: create_pod_manifest leaves the ServerConfig it is given as it was,
\* args included, and every build from the same ServerConfig and pod name
\* gives the same image, command, args and env.
C32_BuilderIsPureAndDeterministic ==
    \A i \in DOMAIN built :
       /\ built[i].config = built[1].config
       /\ server_config = built[1].config
       /\ built[i].manifest = built[1].manifest

(***************************************************************************)
(* Claims about the log lookup (checked under SpecSup).                    *)
(***************************************************************************)
\* C33: for every server the supervisor started, the pod it created has one
\* of the two names the log lookup derives from the returned server id.
C33_LogLookupReachesThePod ==
    \A r \in returned_ever :
       \E k \in 1..2 : CreatedPodName(r.pod_name) = external_pod_name(r.server_id)[k]

(***************************************************************************)
(* Claims about failed and finished stops and starts of the supervisor     *)
(* (checked under SpecSup).                                                *)
(***************************************************************************)
\* C36: a backend failure leaves the supervisor's tracking unchanged: when
\* the backend rejects the pod create of start_server or the pod delete of
\* stop_server(server_id), the call answers success=false and
\* running_servers, the global status and start_time are as the call found
\* them; the part of the call before its backend request does not write
\* them either.
C36_BackendFailureLeavesTracking ==
    /\ [][\A c \in BagToSet(sup_calls), cluster \in Clusters :
            ( \/ start_server_resume(c, cluster, FALSE, clock)
              \/ stop_server_resume(c, cluster, FALSE) )
            => /\ sup_resp'.success = FALSE
               /\ UNCHANGED <<running_servers, sidecar_status, sidecar_start_time>>]_vars
    /\ [][( \/ \E cfg \in Configs, now \in 0..MaxTime : start_server(cfg, now)
            \/ \E sid \in ReturnedIds \cup {UnknownId} : stop_server(sid) )
          => UNCHANGED <<running_servers, sidecar_status, sidecar_start_time>>]_vars

\* The backend has rejected a pod create while a server is tracked and the
\* global status is set.
C36_Witness ==
    /\ sup_resp.op = "start" /\ sup_resp.message.kind = "failed"
    /\ running_servers # <<>>
    /\ sidecar_status = "starting"

\* C37: when stop_server() without an id answers "stopped" or "partial",
\* running_servers is empty and the global status is "stopped", whichever
\* deletes failed: no instance whose delete failed is tracked any more.
C37_StopAllClearsTracking ==
    [][( \/ (stop_server_all /\ running_servers = <<>>)
         \/ \E c \in BagToSet(sup_calls), cluster \in Clusters, accepted \in BOOLEAN :
               stop_server_all_resume(c, cluster, accepted) /\ Tail(c.todo) = <<>> )
       => /\ sup_resp'.op = "stop_all"
          /\ sup_resp'.status \in {"stopped", "partial"}
          /\ running_servers' = <<>>
          /\ sidecar_status' = "stopped"
          /\ sidecar_start_time' = NoTime]_vars

\* A stop of all servers has answered "partial" with no delete accepted: the
\* pod is still in the cluster and nothing is tracked.
C37_Witness ==
    /\ sup_resp.op = "stop_all" /\ sup_resp.status = "partial"
    /\ sup_resp.message.stopped = 0
    /\ pods # {}
    /\ running_servers = <<>> /\ sidecar_status = "stopped"

(***************************************************************************)
(* Claims about the log broadcast (checked under SpecWs).                  *)
(***************************************************************************)
\* C38: under any interleaving of _broadcast_log tasks and remove_websocket
\* calls, no broadcast task tries to remove a WebSocket that is no longer
\* in log_websockets: no task ends with the ValueError of list.remove.
C38_BroadcastEndsWithoutError ==
    \A k \in DOMAIN broadcast_tasks : broadcast_tasks[k].pc # "ValueError"

(***************************************************************************)
(* Claims about DockerManager's status (checked under SpecMain).       *)
(***************************************************************************)
\* C40: DockerManager.status is "starting" or "stopping" only while a start
\* or stop call is in progress; once every call has returned (with a
\* response or with an error) the status is a settled one.
C40_TransientStatusOnlyDuringCall ==
    status \in {"starting", "stopping"} =>
        \E c \in BagToSet(api_calls) : c.op \in {"start", "stop"}

(***************************************************************************)
(* Claims about the life of a stdio connection (checked under SpecConn and *)
(* SpecConnFair).                                                          *)
(***************************************************************************)
\* C35: whenever send_message made a send_stdin call that returned False
\* because the exec connection is closed or in error, send_message returned
\* False.
C35_SendFailsWhenStdinRefuses ==
    (returned.op = "send" /\ returned.stdin = "refused") => ~returned.value

\* The k-th connection created has been closed.
Closed(k) ==
    /\ k \in DOMAIN readers
    /\ (k < Len(readers) \/ ConnectionId \notin active_connections)

\* Both reader tasks of the k-th connection have ended.
Terminated(k) ==
    /\ k \in DOMAIN readers
    /\ readers[k].stdout = "done" /\ readers[k].stderr = "done"

\* C39: a close_stdio_connection that returns True leaves the connection
\* absent from active_connections and its exec connection "closed"; a close
\* of an id that is not there returns False and changes nothing; and the
\* stdout and stderr readers of a closed connection eventually end.
C39_CloseReleasesTheConnection ==
    /\ [][close_stdio_connection
            => /\ returned'.value
               /\ ConnectionId \notin active_connections'
               /\ exec_conn'.status = "closed"]_vars
    /\ [][close_unknown_connection
            => /\ ~returned'.value
               /\ UNCHANGED <<brVars, conn_status, stdin_queue, exec_conn, readers>>]_vars
    /\ \A k \in 1..MaxConnects : Closed(k) ~> Terminated(k)

====
